---------------------------- MODULE Spec2Model ----------------------------
(***************************************************************************)
(* Grid robot engine of myrobot (core/robot.py): position, grid bounds,   *)
(* wall set, move log and stop flag, with the operations move, add_wall,  *)
(* load_maze, reset_simulation and set_grid_size; the controllers that    *)
(* put a program in front of the Robot or of a dog (controllers.py,       *)
(* unified_robot.py); and the go1_py Dog with its construction, mode      *)
(* changes and motion helpers (dog.py).                                   *)
(*                                                                         *)
(* Python strings are modelled as sequences of one-character strings, so  *)
(* that str.lower() and the Direction(value) lookup are computed and not  *)
(* assumed.  A call's outcome is one of "True", "False", "None" (a method  *)
(* without a return value) or "ValueError" (the exception it raised).     *)
(***************************************************************************)
EXTENDS Integers, Sequences, FiniteSets, TLC

VARIABLES
    start_position,        \* Robot.start_position, [x, y]
    position,              \* Robot.position, [x, y]
    grid_width,            \* Robot.grid_width
    grid_height,           \* Robot.grid_height
    walls,                 \* Robot.walls, a set of <<x, y>>
    move_log,              \* Robot.move_log, a sequence of records
    _simulation_stopped,   \* Robot._simulation_stopped
    call,                  \* history: the last call made, its arguments, the path
                           \* it took and what it returned or raised
    halt,                  \* history: whether a move has set the stop flag since
                           \* the last reset_simulation, and how: "none",
                           \* "invalid" (direction) or "blocked" (boundary, wall)
    script,                \* history: the directions a student script has passed
                           \* to move so far
    backend,               \* the controller a program holds and the dog it drives:
                           \* [kind, dog]
    dog_log,               \* the calls handed to the dog, in order; for a FakeDog
                           \* or MockDog this is its log
    settings,              \* ROBOT_SETTINGS of unified_robot.py
    bcall,                 \* history: the last call made on the backend
    dog_pc,                \* where the thread that builds and drives a go1_py Dog
                           \* stands
    dog_frame,             \* the call of the Dog that thread is in, with its
                           \* arguments, or was in last, with how it ended
    connected,             \* client.is_connected()
    published,             \* history: the last messages client.publish has sent,
                           \* [topic, payload]
    decoded,               \* history: the last payload handed to a telemetry
                           \* parser and what parse returned or raised
    heap,                  \* the Robot and BMS objects built so far: [kind,
                           \* frame], with the payload each is parsed from
    slot,                  \* Dog.robot and Dog.bms: the object each refers to
    parser,                \* where the MQTT thread stands in on_message, the
                           \* message it handles and the object it fills
    reader,                \* a thread that reads dog.robot or dog.bms and
                           \* then two fields of the object it got
    sim,                   \* the simulator window: which class it is, running,
                           \* animating, _move_queue, movement_trail
    canvas,                \* the trail segments drawn on the canvas, in order
    executor,              \* the thread that runs the caller's moves: where it
                           \* stands in the wrapped move, with its locals
    render,                \* the Tk main loop: the animations in flight and
                           \* where it stands in the last step of one
    shown,                 \* history: the moves whose animation has started,
                           \* the context of the last step, the resets clicked
    SIMULATOR_SETTINGS,    \* the module-level dictionary of unified_robot.py
    creating               \* the threads that call create_robot_program: where
                           \* each stands in the call, with its arguments and
                           \* locals, and the program it built last

vars == <<start_position, position, grid_width, grid_height, walls, move_log,
          _simulation_stopped, call, halt, script,
          backend, dog_log, settings, bcall,
          dog_pc, dog_frame, connected, published,
          decoded, heap, slot, parser, reader,
          sim, canvas, executor, render, shown,
          SIMULATOR_SETTINGS, creating>>

backendVars == <<backend, dog_log, settings, bcall>>

dogVars == <<dog_pc, dog_frame, connected, published>>

slotVars == <<heap, slot, parser, reader>>

windowVars == <<sim, canvas, executor, render, shown>>

\* the variables of the telemetry parsers, of the simulator window and of
\* create_robot_program
restVars == <<decoded, slotVars, windowVars, SIMULATOR_SETTINGS, creating>>

\* the variables no operation of a bare Robot touches
idleVars == <<script, backendVars, dogVars, restVars>>

robotVars == <<start_position, position, grid_width, grid_height, walls,
               move_log, _simulation_stopped>>

-----------------------------------------------------------------------------
(* Bounds of the model *)

MaxLog == 2         \* moves that append to the log are taken while Len < MaxLog

\* the start cells the model constructs a Robot at
StartCells == {<<0, 0>>, <<1, 1>>}

\* the (width, height) pairs the callers of the model pass to set_grid_size
GridSizes == {<<2, 2>>}

\* the cells the callers of the model pass to add_wall
WallCells == {<<-1, 0>>, <<1, 0>>, <<1, 1>>}

-----------------------------------------------------------------------------
(* Strings *)

UpperToLower ==
    ("A" :> "a") @@ ("B" :> "b") @@ ("C" :> "c") @@ ("D" :> "d") @@ ("E" :> "e") @@
    ("F" :> "f") @@ ("G" :> "g") @@ ("H" :> "h") @@ ("I" :> "i") @@ ("J" :> "j") @@
    ("K" :> "k") @@ ("L" :> "l") @@ ("M" :> "m") @@ ("N" :> "n") @@ ("O" :> "o") @@
    ("P" :> "p") @@ ("Q" :> "q") @@ ("R" :> "r") @@ ("S" :> "s") @@ ("T" :> "t") @@
    ("U" :> "u") @@ ("V" :> "v") @@ ("W" :> "w") @@ ("X" :> "x") @@ ("Y" :> "y") @@
    ("Z" :> "z")

\* str.lower(): every upper-case letter is replaced, every other character kept
lower(s) ==
    [i \in 1..Len(s) |-> IF s[i] \in DOMAIN UpperToLower THEN UpperToLower[s[i]] ELSE s[i]]

\* the values of the Direction enumeration
UP == <<"u", "p">>
DOWN == <<"d", "o", "w", "n">>
LEFT == <<"l", "e", "f", "t">>
RIGHT == <<"r", "i", "g", "h", "t">>
BACKWARD == <<"b", "a", "c", "k", "w", "a", "r", "d">>

\* what Direction(value) raises when no member has that value; it is no
\* character sequence, so it differs from every member
ValueError == <<"ValueError">>

\* Direction(value): the member with that value, or ValueError
Direction(value) ==
    IF value \in {UP, DOWN, LEFT, RIGHT, BACKWARD} THEN value ELSE ValueError

\* the direction strings the callers of the model pass to move
DirectionInputs ==
    {UP, DOWN, LEFT, RIGHT, BACKWARD,
     <<"U", "p">>, <<"j", "u", "m", "p">>}

-----------------------------------------------------------------------------
(* Robot *)

Position(x, y) == [x |-> x, y |-> y]

\* f"({x}, {y})"
FormatPosition(p) == "(" \o ToString(p.x) \o ", " \o ToString(p.y) \o ")"

DefaultGridSize == 10

\* speeds and times are counted in tenths: One stands for 1.0
One == 10

\* ROBOT_SETTINGS as the module defines it
ROBOT_SETTINGS ==
    [initial_mode |-> "walk", move_speed |-> 3, move_time |-> One,
     turn_speed |-> 3, turn_time |-> One]

\* no controller has been built
NoBackend ==
    /\ backend = [kind |-> "none", dog |-> "none"]
    /\ dog_log = <<>>
    /\ settings = ROBOT_SETTINGS
    /\ bcall = [op |-> "none"]

\* no Dog of go1_py is being built or driven
NoDog ==
    /\ dog_pc = "none"
    /\ dog_frame = [op |-> "none"]
    /\ connected = FALSE
    /\ published = <<>>

\* no telemetry payload has been parsed and no Dog holds telemetry frames
NoTelemetry ==
    /\ decoded = [op |-> "none"]
    /\ heap = <<>>
    /\ slot = [robot |-> 0, bms |-> 0]
    /\ parser = [pc |-> "none"]
    /\ reader = [pc |-> "none"]

\* no simulator window has been built
NoWindow ==
    /\ sim = [kind |-> "none"]
    /\ canvas = <<>>
    /\ executor = [pc |-> "none"]
    /\ render = [pc |-> "none"]
    /\ shown = [ctx |-> "none"]

\* SIMULATOR_SETTINGS as unified_robot.py defines it; visualization_delay in
\* tenths of a second
SimulatorDefaults ==
    [grid_width |-> 8, grid_height |-> 8, start_x |-> 0, start_y |-> 0,
     visualization_delay |-> 5]

\* no thread calls create_robot_program
NoFactory ==
    /\ SIMULATOR_SETTINGS = SimulatorDefaults
    /\ creating = [pc |-> "none"]

\* neither the telemetry parsers nor the simulator window nor
\* create_robot_program are in use
NoRest == NoTelemetry /\ NoWindow /\ NoFactory

Init ==
    /\ \E start \in StartCells :
        /\ start_position = Position(start[1], start[2])
        /\ position = Position(start[1], start[2])
    /\ grid_width = DefaultGridSize
    /\ grid_height = DefaultGridSize
    /\ walls = {}
    /\ move_log = <<>>
    /\ _simulation_stopped = FALSE
    /\ call = [op |-> "__init__", outcome |-> "created", ret |-> "None"]
    /\ halt = "none"
    /\ script = <<>>
    /\ NoBackend
    /\ NoDog
    /\ NoRest

\* NewPosition with backward taken for a step to the east
NewPositionBackwardEast(pos, dir_enum) ==
    IF dir_enum = UP THEN Position(pos.x, pos.y + 1)
    ELSE IF dir_enum = DOWN THEN Position(pos.x, pos.y - 1)
    ELSE IF dir_enum = LEFT THEN Position(pos.x - 1, pos.y)
    ELSE IF dir_enum = RIGHT THEN Position(pos.x + 1, pos.y)
    ELSE IF dir_enum = BACKWARD THEN Position(pos.x + 1, pos.y)
    ELSE pos

\* the cell a move in direction dir_enum leaves pos for
NewPosition(pos, dir_enum) ==
    IF dir_enum = UP THEN Position(pos.x, pos.y + 1)
    ELSE IF dir_enum = DOWN THEN Position(pos.x, pos.y - 1)
    ELSE IF dir_enum = LEFT THEN Position(pos.x - 1, pos.y)
    ELSE IF dir_enum = RIGHT THEN Position(pos.x + 1, pos.y)
    ELSE IF dir_enum = BACKWARD THEN Position(pos.x - 1, pos.y)
    ELSE pos

\* OutOfBounds with the upper limits off by one
OutOfBoundsOffByOne(p, width, height) ==
    p.x < 0 \/ p.x > width \/ p.y < 0 \/ p.y > height

OutOfBounds(p, width, height) ==
    p.x < 0 \/ p.x >= width \/ p.y < 0 \/ p.y >= height

\* the record _log_move appends; pos is self.position at the time of the call
LogRecord(direction, success, reason, pos, log) ==
    [direction |-> direction, success |-> success, reason |-> reason,
     position_before |-> FormatPosition(pos), move_number |-> Len(log) + 1]

\* MoveOutcome without the check of the stop flag
MoveOutcomeNoStopCheck(direction) ==
    IF Direction(lower(direction)) = ValueError THEN "invalid"
    ELSE LET new == NewPosition(position, Direction(lower(direction))) IN
         IF OutOfBounds(new, grid_width, grid_height) THEN "boundary"
         ELSE IF <<new.x, new.y>> \in walls THEN "obstacle"
         ELSE "success"

\* MoveOutcome without the check of the walls
MoveOutcomeNoWallCheck(direction) ==
    IF _simulation_stopped THEN "stopped"
    ELSE IF Direction(lower(direction)) = ValueError THEN "invalid"
    ELSE LET new == NewPosition(position, Direction(lower(direction))) IN
         IF OutOfBounds(new, grid_width, grid_height) THEN "boundary"
         ELSE "success"

\* MoveOutcome in which an invalid direction is refused without stopping
MoveOutcomeInvalidRefused(direction) ==
    IF _simulation_stopped \/ Direction(lower(direction)) = ValueError THEN "stopped"
    ELSE LET new == NewPosition(position, Direction(lower(direction))) IN
         IF OutOfBounds(new, grid_width, grid_height) THEN "boundary"
         ELSE IF <<new.x, new.y>> \in walls THEN "obstacle"
         ELSE "success"

\* what a move(direction) call does: "stopped", "invalid", "boundary",
\* "obstacle" or "success"
MoveOutcome(direction) ==
    IF _simulation_stopped THEN "stopped"
    ELSE IF Direction(lower(direction)) = ValueError THEN "invalid"
    ELSE LET new == NewPosition(position, Direction(lower(direction))) IN
         IF OutOfBounds(new, grid_width, grid_height) THEN "boundary"
         ELSE IF <<new.x, new.y>> \in walls THEN "obstacle"
         ELSE "success"

\* Move in which a call refused because of the stop flag is logged too
MoveLoggingRefusals(direction) ==
    LET outcome == MoveOutcome(direction)
        new == NewPosition(position, Direction(lower(direction)))
    IN
    /\ outcome \in {"boundary", "obstacle", "success"} => Len(move_log) < MaxLog
    /\ call' = [op |-> "move", direction |-> direction, outcome |-> outcome,
                ret |-> IF outcome = "success" THEN "True" ELSE "False"]
    /\ CASE outcome = "stopped" ->
              /\ move_log' = Append(move_log,
                                LogRecord(direction, FALSE, outcome, position, move_log))
              /\ UNCHANGED <<position, _simulation_stopped, halt>>
         [] outcome = "invalid" ->
              /\ _simulation_stopped' = TRUE
              /\ halt' = "invalid"
              /\ UNCHANGED <<position, move_log>>
         [] outcome \in {"boundary", "obstacle"} ->
              /\ move_log' = Append(move_log,
                                LogRecord(direction, FALSE, outcome, position, move_log))
              /\ _simulation_stopped' = TRUE
              /\ halt' = "blocked"
              /\ UNCHANGED position
         [] outcome = "success" ->
              /\ position' = new
              /\ move_log' = Append(move_log,
                                LogRecord(direction, TRUE, "success", new, move_log))
              /\ UNCHANGED <<_simulation_stopped, halt>>
    /\ UNCHANGED <<start_position, grid_width, grid_height, walls>>

Move(direction) ==
    LET outcome == MoveOutcome(direction)
        new == NewPosition(position, Direction(lower(direction)))
    IN
    /\ outcome \in {"boundary", "obstacle", "success"} => Len(move_log) < MaxLog
    /\ call' = [op |-> "move", direction |-> direction, outcome |-> outcome,
                ret |-> IF outcome = "success" THEN "True" ELSE "False"]
    /\ CASE outcome = "stopped" ->
              UNCHANGED <<position, move_log, _simulation_stopped, halt>>
         [] outcome = "invalid" ->
              /\ _simulation_stopped' = TRUE
              /\ halt' = "invalid"
              /\ UNCHANGED <<position, move_log>>
         [] outcome \in {"boundary", "obstacle"} ->
              /\ move_log' = Append(move_log,
                                LogRecord(direction, FALSE, outcome, position, move_log))
              /\ _simulation_stopped' = TRUE
              /\ halt' = "blocked"
              /\ UNCHANGED position
         [] outcome = "success" ->
              /\ position' = new
              /\ move_log' = Append(move_log,
                                LogRecord(direction, TRUE, "success", new, move_log))
              /\ UNCHANGED <<_simulation_stopped, halt>>
    /\ UNCHANGED <<start_position, grid_width, grid_height, walls>>

\* ResetSimulation that leaves the move log as it is
ResetSimulationKeepsLog ==
    /\ position' = Position(start_position.x, start_position.y)
    /\ _simulation_stopped' = FALSE
    /\ call' = [op |-> "reset_simulation", outcome |-> "reset", ret |-> "None"]
    /\ halt' = "none"
    /\ UNCHANGED <<start_position, grid_width, grid_height, walls, move_log>>

ResetSimulation ==
    /\ position' = Position(start_position.x, start_position.y)
    /\ move_log' = <<>>
    /\ _simulation_stopped' = FALSE
    /\ call' = [op |-> "reset_simulation", outcome |-> "reset", ret |-> "None"]
    /\ halt' = "none"
    /\ UNCHANGED <<start_position, grid_width, grid_height, walls>>

\* SetGridSize that clears the stop flag as well
SetGridSizeClearingStop(width, height) ==
    /\ grid_width' = width
    /\ grid_height' = height
    /\ _simulation_stopped' = FALSE
    /\ call' = [op |-> "set_grid_size", width |-> width, height |-> height,
                outcome |-> "set", ret |-> "None"]
    /\ UNCHANGED <<start_position, position, walls, move_log, halt>>

SetGridSize(width, height) ==
    /\ grid_width' = width
    /\ grid_height' = height
    /\ call' = [op |-> "set_grid_size", width |-> width, height |-> height,
                outcome |-> "set", ret |-> "None"]
    /\ UNCHANGED <<start_position, position, walls, move_log,
                   _simulation_stopped, halt>>

\* InGrid without the lower limits
InGridNoLowerLimit(x, y, width, height) == x < width /\ y < height

InGrid(x, y, width, height) == 0 <= x /\ x < width /\ 0 <= y /\ y < height

\* AddWallOutcome that compares with the start cell and not the current one
AddWallOutcomeStartOnly(x, y) ==
    IF <<x, y>> = <<start_position.x, start_position.y>> THEN "raise"
    ELSE IF InGrid(x, y, grid_width, grid_height)
         THEN IF <<x, y>> \in walls THEN "exists" ELSE "add"
    ELSE "ignore"

\* what an add_wall(x, y) call does: "raise", "exists" (in the grid and a wall
\* already), "add" or "ignore" (outside the grid)
AddWallOutcome(x, y) ==
    IF <<x, y>> = <<position.x, position.y>> THEN "raise"
    ELSE IF InGrid(x, y, grid_width, grid_height)
         THEN IF <<x, y>> \in walls THEN "exists" ELSE "add"
    ELSE "ignore"

AddWall(x, y) ==
    LET outcome == AddWallOutcome(x, y) IN
    /\ walls' = IF outcome \in {"add", "exists"} THEN walls \cup {<<x, y>>} ELSE walls
    /\ call' = [op |-> "add_wall", x |-> x, y |-> y, outcome |-> outcome,
                ret |-> IF outcome = "raise" THEN "ValueError" ELSE "None"]
    /\ UNCHANGED <<start_position, position, grid_width, grid_height, move_log,
                   _simulation_stopped, halt>>

\* the maze layouts the callers of the model pass to load_maze: lists of rows
\* of one-character cells, row 0 first
Layouts ==
    { <<>>,
      << <<>> >>,
      << <<".">> >>,
      << <<".", ".">>,
         <<"#", ".">> >>,
      << <<"S", "#">>,
         <<".", "S">> >>,
      << <<".", "S">>,
         <<"S", "#">> >>,
      << <<".">>,
         <<".", "#">> >> }

\* the (row, column) pairs of the cells of layout that hold symbol, 0-based
CellsWith(layout, symbol) ==
    {rc \in UNION {{<<r, c>> : c \in 0..(Len(layout[r + 1]) - 1)} :
                        r \in 0..(Len(layout) - 1)} :
        layout[rc[1] + 1][rc[2] + 1] = symbol}

\* grid_y without the vertical flip
GridYUnflipped(layout, r) == r

\* grid_y = self.grid_height - 1 - y
GridY(layout, r) == Len(layout) - 1 - r

\* the walls load_maze collects from layout
MazeWalls(layout) == {<<rc[2], GridY(layout, rc[1])>> : rc \in CellsWith(layout, "#")}

\* the cell of the first 'S' the row-by-row scan of layout meets
FirstStart(layout) ==
    LET found == CellsWith(layout, "S")
        rc == CHOOSE a \in found :
                \A b \in found : a[1] < b[1] \/ (a[1] = b[1] /\ a[2] <= b[2])
    IN Position(rc[2], GridY(layout, rc[1]))

\* load_maze testing the current cell instead of the start cell
LoadMazeOutcomeCurrentCell(layout) ==
    IF layout = <<>> \/ layout[1] = <<>> THEN "empty"
    ELSE IF CellsWith(layout, "S") = {}
            /\ <<position.x, position.y>> \in MazeWalls(layout)
         THEN "raise"
    ELSE "loaded"

\* what a load_maze(layout) call does: "empty" (returns at once), "raise"
\* (start inside a wall) or "loaded"
LoadMazeOutcome(layout) ==
    IF layout = <<>> \/ layout[1] = <<>> THEN "empty"
    ELSE IF CellsWith(layout, "S") = {}
            /\ <<start_position.x, start_position.y>> \in MazeWalls(layout)
         THEN "raise"
    ELSE "loaded"

LoadMaze(layout) ==
    LET outcome == LoadMazeOutcome(layout)
        start_found == outcome # "empty" /\ CellsWith(layout, "S") # {}
    IN
    /\ call' = [op |-> "load_maze", layout |-> layout, outcome |-> outcome,
                ret |-> IF outcome = "raise" THEN "ValueError" ELSE "None"]
    /\ IF outcome = "empty"
       THEN UNCHANGED <<grid_width, grid_height, walls>>
       ELSE /\ grid_height' = Len(layout)
            /\ grid_width' = Len(layout[1])
            /\ walls' = MazeWalls(layout)
    /\ IF start_found
       THEN /\ start_position' = FirstStart(layout)
            /\ position' = FirstStart(layout)
       ELSE UNCHANGED <<start_position, position>>
    /\ IF outcome = "loaded"
       THEN /\ _simulation_stopped' = FALSE
            /\ move_log' = <<>>
       ELSE UNCHANGED <<_simulation_stopped, move_log>>
    /\ UNCHANGED halt

\* move, add_wall, load_maze and reset_simulation on a Robot as constructed
NextGrid ==
    \/ \E direction \in DirectionInputs : Move(direction) /\ UNCHANGED idleVars
    \/ ResetSimulation /\ UNCHANGED idleVars
    \/ \E cell \in WallCells : AddWall(cell[1], cell[2]) /\ UNCHANGED idleVars
    \/ \E layout \in Layouts : LoadMaze(layout) /\ UNCHANGED idleVars

Next ==
    \/ NextGrid
    \/ \E size \in GridSizes : SetGridSize(size[1], size[2]) /\ UNCHANGED idleVars

Spec == Init /\ [][Next]_vars

SpecGrid == Init /\ [][NextGrid]_vars

-----------------------------------------------------------------------------
(* Student scripts: a program built by RobotProgram(width, height, start_x,  *)
(* start_y), one wall added, and then a sequence of robot.move calls.        *)

MaxScript == 3      \* moves a script makes

\* the (width, height) pairs, start cells and walls of the scripts
ScenarioGrids == {<<5, 5>>}
ScenarioStarts == {<<0, 0>>, <<0, 1>>}
ScenarioWalls == {<<2, 0>>, <<1, 0>>}

\* RobotProgram(width, height, start_x, start_y) followed by add_wall(x, y)
\* of a cell of the grid that is not the start cell
ScenarioInit ==
    /\ \E start \in ScenarioStarts :
        /\ start_position = Position(start[1], start[2])
        /\ position = Position(start[1], start[2])
    /\ \E size \in ScenarioGrids :
        /\ grid_width = size[1]
        /\ grid_height = size[2]
    /\ \E wall \in ScenarioWalls :
        /\ walls = {wall}
        /\ call = [op |-> "add_wall", x |-> wall[1], y |-> wall[2],
                   outcome |-> "add", ret |-> "None"]
    /\ move_log = <<>>
    /\ _simulation_stopped = FALSE
    /\ halt = "none"
    /\ script = <<>>
    /\ NoBackend
    /\ NoDog
    /\ NoRest

\* the next statement of the script: program.robot.move(direction)
ScriptMove(direction) ==
    /\ Len(script) < MaxScript
    /\ Move(direction)
    /\ script' = Append(script, direction)

NextScript ==
    \E direction \in DirectionInputs :
        ScriptMove(direction) /\ UNCHANGED <<backendVars, dogVars, restVars>>

SpecScript == ScenarioInit /\ [][NextScript]_vars

-----------------------------------------------------------------------------
(* Backends: the SimulationController and the Go1Controller of              *)
(* controllers.py behind a Program, and the RobotInterface of               *)
(* unified_robot.py in real mode.  A call on the dog is recorded in dog_log  *)
(* with the speed and time handed to it.                                     *)

MaxDogLog == 2      \* go_* calls are handed to a dog while Len(dog_log) <= MaxDogLog

\* the (width, height) pairs build_program is called with
BackendGrids == {<<2, 2>>}

\* the speeds and times, in tenths, the callers pass to a controller's move
SpeedInputs == {-5, 5, 15}
TimeInputs == {10, 20}

\* the values of ROBOT_SETTINGS["move_speed"] and ["turn_speed"], in tenths
SettingSpeeds == {3, 15}

\* VALID_DIRECTIONS with backward among them
VALID_DIRECTIONSWithBackward == {UP, DOWN, LEFT, RIGHT, BACKWARD}

VALID_DIRECTIONS == {UP, DOWN, LEFT, RIGHT}

\* max(0.0, min(1.0, speed))
Clamp(speed) ==
    LET inner == IF speed < One THEN speed ELSE One
    IN IF inner > 0 THEN inner ELSE 0

\* the record of a go_* call on the dog
GoCall(method, speed, time) == [method |-> method, speed |-> speed, time |-> time]

\* the record of a change_mode call on the dog
ModeCall(mode) == [method |-> "change_mode", mode |-> mode]

\* build_program(width, height, start_x, start_y, 'simulator')
BuildSimulator(width, height, start_x, start_y) ==
    /\ start_position = Position(start_x, start_y)
    /\ position = Position(start_x, start_y)
    /\ grid_width = width
    /\ grid_height = height
    /\ walls = {}
    /\ move_log = <<>>
    /\ _simulation_stopped = FALSE
    /\ call = [op |-> "__init__", outcome |-> "created", ret |-> "None"]
    /\ halt = "none"
    /\ script = <<>>
    /\ backend = [kind |-> "SimulationController", dog |-> "none"]
    /\ dog_log = <<>>
    /\ settings = ROBOT_SETTINGS
    /\ bcall = [op |-> "build_program", mode |-> "simulator", ret |-> "Program"]
    /\ NoDog
    /\ NoRest

\* a program in real mode has no Robot: inner_program is None
NoRobot ==
    /\ start_position = Position(0, 0)
    /\ position = Position(0, 0)
    /\ grid_width = DefaultGridSize
    /\ grid_height = DefaultGridSize
    /\ walls = {}
    /\ move_log = <<>>
    /\ _simulation_stopped = FALSE
    /\ call = [op |-> "none"]
    /\ halt = "none"
    /\ script = <<>>

\* what Go1Controller(host, initial_mode='Walk') ends with: "FakeDog" when
\* ROBOT_BEHAVIOR_HARDWARE_MOCK is '1', else "ImportError" without the go1_py
\* library, "OSError" when Dog(host) cannot connect, else "Dog"
Go1ControllerOutcome(mock_enabled, library, reachable) ==
    IF mock_enabled THEN "FakeDog"
    ELSE IF ~library THEN "ImportError"
    ELSE IF ~reachable THEN "OSError"
    ELSE "Dog"

\* build_program(..., 'real'): Go1Controller.__init__
Go1ControllerInit(mock_enabled, library, reachable) ==
    LET outcome == Go1ControllerOutcome(mock_enabled, library, reachable) IN
    /\ NoRobot
    /\ NoDog
    /\ NoRest
    /\ backend = IF outcome \in {"FakeDog", "Dog"}
                 THEN [kind |-> "Go1Controller", dog |-> outcome]
                 ELSE [kind |-> "none", dog |-> "none"]
    /\ dog_log = IF outcome \in {"FakeDog", "Dog"} THEN <<ModeCall("Walk")>> ELSE <<>>
    /\ settings = ROBOT_SETTINGS
    /\ bcall = [op |-> "Go1Controller", mock_enabled |-> mock_enabled,
                library |-> library, reachable |-> reachable,
                ret |-> IF outcome \in {"FakeDog", "Dog"} THEN "None" ELSE outcome]

\* what RobotInterface('real') ends with: "Dog" when go1_py imports and
\* Dog(host) connects, else the "MockDog" of _setup_mock_robot
RobotInterfaceOutcome(library, reachable) ==
    IF library /\ reachable THEN "Dog" ELSE "MockDog"

\* RobotInterface('real'): _setup_real_robot and _setup_mock_robot, with
\* ROBOT_SETTINGS holding the given speeds
RobotInterfaceInit(library, reachable, move_speed, turn_speed) ==
    LET outcome == RobotInterfaceOutcome(library, reachable) IN
    /\ NoRobot
    /\ NoDog
    /\ NoRest
    /\ backend = [kind |-> "RobotInterface", dog |-> outcome]
    /\ dog_log = IF outcome = "Dog"
                 THEN <<ModeCall("Stand"), ModeCall("Walk")>>
                 ELSE <<ModeCall("walk")>>
    /\ settings = [ROBOT_SETTINGS EXCEPT !.move_speed = move_speed,
                                         !.turn_speed = turn_speed]
    /\ bcall = [op |-> "RobotInterface", library |-> library,
                reachable |-> reachable, ret |-> "None"]

BackendInit ==
    \/ \E size \in BackendGrids : \E start \in StartCells :
            BuildSimulator(size[1], size[2], start[1], start[2])
    \/ \E mock_enabled \in BOOLEAN : \E library \in BOOLEAN : \E reachable \in BOOLEAN :
            Go1ControllerInit(mock_enabled, library, reachable)
    \/ \E library \in BOOLEAN : \E reachable \in BOOLEAN :
       \E move_speed \in SettingSpeeds : \E turn_speed \in SettingSpeeds :
            RobotInterfaceInit(library, reachable, move_speed, turn_speed)

\* a direction map with up and down exchanged
DirectionMapUpsideDown(d) ==
    IF d = UP THEN "go_backward"
    ELSE IF d = DOWN THEN "go_forward"
    ELSE IF d = LEFT THEN "go_left"
    ELSE "go_right"

\* the method of the dog a direction is mapped to
DirectionMap(d) ==
    IF d = UP THEN "go_forward"
    ELSE IF d = DOWN THEN "go_backward"
    ELSE IF d = LEFT THEN "go_left"
    ELSE "go_right"

\* SimulationControllerMove in which a speed of zero or less makes no step
SimulationControllerMoveScaled(direction, speed, time) ==
    LET d == lower(direction) IN
    /\ backend.kind = "SimulationController"
    /\ IF d \notin VALID_DIRECTIONS \/ speed <= 0
       THEN /\ bcall' = [op |-> "move", direction |-> direction, speed |-> speed,
                         time |-> time, ret |-> "False"]
            /\ UNCHANGED <<robotVars, call, halt>>
       ELSE /\ Move(d)
            /\ bcall' = [op |-> "move", direction |-> direction, speed |-> speed,
                         time |-> time, ret |-> call'.ret]
    /\ UNCHANGED <<script, backend, dog_log, settings>>

\* SimulationController.move(direction, speed, time)
SimulationControllerMove(direction, speed, time) ==
    LET d == lower(direction) IN
    /\ backend.kind = "SimulationController"
    /\ IF d \notin VALID_DIRECTIONS
       THEN /\ bcall' = [op |-> "move", direction |-> direction, speed |-> speed,
                         time |-> time, ret |-> "False"]
            /\ UNCHANGED <<robotVars, call, halt>>
       ELSE /\ Move(d)
            /\ bcall' = [op |-> "move", direction |-> direction, speed |-> speed,
                         time |-> time, ret |-> call'.ret]
    /\ UNCHANGED <<script, backend, dog_log, settings>>

\* Program.add_wall(x, y) in simulator mode
ProgramAddWall(x, y) ==
    /\ backend.kind = "SimulationController"
    /\ AddWall(x, y)
    /\ bcall' = [op |-> "add_wall", ret |-> call'.ret]
    /\ UNCHANGED <<script, backend, dog_log, settings>>

\* program.robot.reset_simulation() in simulator mode, reached through
\* UnifiedRobot.__getattr__
ProgramResetSimulation ==
    /\ backend.kind = "SimulationController"
    /\ ResetSimulation
    /\ bcall' = [op |-> "reset_simulation", ret |-> "None"]
    /\ UNCHANGED <<script, backend, dog_log, settings>>

\* Go1Controller.move(direction, speed, time); raises tells whether the call
\* on a real Dog raises, which the FakeDog never does
Go1ControllerMove(direction, speed, time, raises) ==
    LET d == lower(direction) IN
    /\ backend.kind = "Go1Controller"
    /\ raises => backend.dog = "Dog"
    /\ IF d \notin VALID_DIRECTIONS
       THEN /\ ~raises
            /\ bcall' = [op |-> "move", direction |-> direction, speed |-> speed,
                         time |-> time, ret |-> "False"]
            /\ UNCHANGED dog_log
       ELSE /\ Len(dog_log) <= MaxDogLog
            /\ dog_log' = Append(dog_log, GoCall(DirectionMap(d), Clamp(speed), time))
            /\ bcall' = [op |-> "move", direction |-> direction, speed |-> speed,
                         time |-> time, ret |-> IF raises THEN "False" ELSE "True"]
    /\ UNCHANGED <<robotVars, call, halt, script, backend, settings>>

RECURSIVE lstrip(_)
\* the string without its leading blanks
lstrip(s) == IF s # <<>> /\ Head(s) = " " THEN lstrip(Tail(s)) ELSE s

RECURSIVE rstrip(_)
\* the string without its trailing blanks
rstrip(s) ==
    IF s # <<>> /\ s[Len(s)] = " " THEN rstrip(SubSeq(s, 1, Len(s) - 1)) ELSE s

\* str.strip()
strip(s) == rstrip(lstrip(s))

\* _get_movement_params(direction): <<speed, time>>
GetMovementParams(direction) ==
    IF direction \in {LEFT, RIGHT}
    THEN <<settings.turn_speed, settings.turn_time>>
    ELSE <<settings.move_speed, settings.move_time>>

\* RobotInterface.move(direction) in real mode; raises tells whether the call
\* on a real Dog raises, which the MockDog never does
RobotInterfaceMove(direction, raises) ==
    LET d == strip(lower(direction))
        params == GetMovementParams(d)
    IN
    /\ backend.kind = "RobotInterface"
    /\ raises => backend.dog = "Dog"
    /\ IF d \notin {UP, DOWN, LEFT, RIGHT}
       THEN /\ ~raises
            /\ bcall' = [op |-> "move", direction |-> direction, ret |-> "False"]
            /\ UNCHANGED dog_log
       ELSE /\ Len(dog_log) <= MaxDogLog
            /\ dog_log' = Append(dog_log, GoCall(DirectionMap(d), params[1], params[2]))
            /\ bcall' = [op |-> "move", direction |-> direction,
                         ret |-> IF raises THEN "False" ELSE "True"]
    /\ UNCHANGED <<robotVars, call, halt, script, backend, settings>>

NextBackend ==
    \/ \E direction \in DirectionInputs : \E speed \in SpeedInputs : \E time \in TimeInputs :
            SimulationControllerMove(direction, speed, time) /\ UNCHANGED <<dogVars, restVars>>
    \/ \E cell \in WallCells : ProgramAddWall(cell[1], cell[2]) /\ UNCHANGED <<dogVars, restVars>>
    \/ ProgramResetSimulation /\ UNCHANGED <<dogVars, restVars>>
    \/ \E direction \in DirectionInputs : \E speed \in SpeedInputs : \E time \in TimeInputs :
       \E raises \in BOOLEAN :
            Go1ControllerMove(direction, speed, time, raises) /\ UNCHANGED <<dogVars, restVars>>
    \/ \E direction \in DirectionInputs : \E raises \in BOOLEAN :
            RobotInterfaceMove(direction, raises) /\ UNCHANGED <<dogVars, restVars>>

SpecBackend == BackendInit /\ [][NextBackend]_vars

-----------------------------------------------------------------------------
(* A session with the real dog: RobotInterface._setup_real_robot builds a   *)
(* go1_py Dog and the thread then calls change_mode and the motion helpers.  *)
(* Every statement that publishes is a step of its own, and a publish either *)
(* sends its message or raises.  The broker's acknowledgement arrives, if it *)
(* does, at any time after client.connect has returned.                      *)

MaxPublished == 2   \* published keeps the last MaxPublished messages

\* the speeds, in tenths, and the times, in tenths of a second, the thread
\* passes to the helpers
DogSpeeds == {5, 15}
DogTimes == {0, 1, 2}

\* the modes the thread passes to change_mode
DogModes == {"stand", "walk"}

\* the motion helpers of the Dog
Helpers ==
    {"go_forward", "go_backward", "go_right", "go_left", "turn_right", "turn_left",
     "extend_up", "squat_down", "lean_right", "lean_left", "twist_right",
     "twist_left", "look_down", "look_up"}

FREQ == 10

\* range(int(FREQ * t)) for a time of t tenths of a second
Ticks(t) == (FREQ * t) \div One

\* the (x, y, z, w) a helper passes to move_over_time
HelperVector(helper, speed) ==
    CASE helper = "go_forward" -> <<0, 0, 0, speed>>
      [] helper = "go_backward" -> <<0, 0, 0, -speed>>
      [] helper = "go_right" -> <<speed, 0, 0, 0>>
      [] helper = "go_left" -> <<-speed, 0, 0, 0>>
      [] helper = "turn_right" -> <<0, speed, 0, 0>>
      [] helper = "turn_left" -> <<0, -speed, 0, 0>>
      [] helper = "extend_up" -> <<0, 0, 0, speed>>
      [] helper = "squat_down" -> <<0, 0, 0, -speed>>
      [] helper = "lean_right" -> <<speed, 0, 0, 0>>
      [] helper = "lean_left" -> <<-speed, 0, 0, 0>>
      [] helper = "twist_right" -> <<0, speed, 0, 0>>
      [] helper = "twist_left" -> <<0, -speed, 0, 0>>
      [] helper = "look_down" -> <<0, 0, speed, 0>>
      [] helper = "look_up" -> <<0, 0, -speed, 0>>

\* ClipAxis without the lower limit
ClipAxisUpperOnly(a) == IF a > One THEN One ELSE a

\* one axis of ndarray.clip(-1, 1)
ClipAxis(a) == IF a < -One THEN -One ELSE IF a > One THEN One ELSE a

\* the message Dog.move(x, y, z, w) publishes
StickMessage(v) ==
    [topic |-> "controller/stick",
     payload |-> <<ClipAxis(v[1]), ClipAxis(v[2]), ClipAxis(v[3]), ClipAxis(v[4])>>]

\* the message change_mode publishes after it has stopped the dog
ActionMessage(mode) == [topic |-> "controller/action", payload |-> mode]

\* client.publish of a message that is sent
Publish(message) ==
    published' = IF Len(published) < MaxPublished
                 THEN Append(published, message)
                 ELSE Append(Tail(published), message)

\* RobotInterface('real') enters _setup_real_robot
HardwareInit ==
    /\ NoRobot
    /\ NoBackend
    /\ NoRest
    /\ dog_pc = "setup"
    /\ dog_frame = [op |-> "_setup_real_robot", outcome |-> "running"]
    /\ connected = FALSE
    /\ published = <<>>

\* from go1_py import Dog, Mode: without the library the ImportError leads to
\* _setup_mock_robot
SetupImport(library) ==
    /\ dog_pc = "setup"
    /\ dog_pc' = IF library THEN "connect" ELSE "mock"
    /\ dog_frame' = IF library THEN [op |-> "Dog", outcome |-> "running"]
                    ELSE [op |-> "_setup_real_robot", outcome |-> "ImportError"]
    /\ UNCHANGED <<connected, published>>

\* Dog.__init__ up to the loop: client.connect(host, 1883, keepalive=5)
\* raises within the socket timeout or returns; then loop_start, subscribe
DogConnect(raises) ==
    /\ dog_pc = "connect"
    /\ dog_pc' = IF raises THEN "mock" ELSE "wait"
    /\ dog_frame' = IF raises THEN [op |-> "Dog", outcome |-> "OSError"] ELSE dog_frame
    /\ UNCHANGED <<connected, published>>

\* the network thread of the client receives the broker's acknowledgement
Connack ==
    /\ dog_pc \notin {"none", "setup", "connect", "mock"}
    /\ ~connected
    /\ connected' = TRUE
    /\ UNCHANGED <<dog_pc, dog_frame, published>>

\* while not self.client.is_connected(): sleep(0.1); once connected, Dog(host)
\* returns and _setup_real_robot calls change_mode(Mode.Stand)
DogWait ==
    /\ dog_pc = "wait"
    /\ IF connected
       THEN /\ dog_pc' = "mode_stop"
            /\ dog_frame' = [op |-> "change_mode", mode |-> "stand",
                             caller |-> "setup_stand", outcome |-> "running"]
       ELSE UNCHANGED <<dog_pc, dog_frame>>
    /\ UNCHANGED <<connected, published>>

\* where an exception of a Dog call leaves the thread: in _setup_real_robot it
\* is caught and leads to _setup_mock_robot, elsewhere the call is over
AfterRaise == IF dog_frame.caller = "user" THEN "ready" ELSE "mock"

\* what is kept of a call that is over: which it was and how it ended
Ended(frame, outcome) == [op |-> frame.op, caller |-> frame.caller, outcome |-> outcome]

ZeroVector == <<0, 0, 0, 0>>

\* the thread, between two calls, calls change_mode(mode)
CallChangeMode(mode) ==
    /\ dog_pc = "ready"
    /\ dog_pc' = "mode_stop"
    /\ dog_frame' = [op |-> "change_mode", mode |-> mode, caller |-> "user",
                     outcome |-> "running"]
    /\ UNCHANGED <<connected, published>>

\* ChangeModeStop that publishes nothing
ChangeModeStopSkipped(raises) ==
    /\ dog_pc = "mode_stop"
    /\ IF raises
       THEN /\ dog_pc' = AfterRaise
            /\ dog_frame' = Ended(dog_frame, "raised")
            /\ UNCHANGED published
       ELSE /\ dog_pc' = "mode_publish"
            /\ UNCHANGED <<dog_frame, published>>
    /\ UNCHANGED connected

\* change_mode: self.stop_moving()
ChangeModeStop(raises) ==
    /\ dog_pc = "mode_stop"
    /\ IF raises
       THEN /\ dog_pc' = AfterRaise
            /\ dog_frame' = Ended(dog_frame, "raised")
            /\ UNCHANGED published
       ELSE /\ Publish(StickMessage(ZeroVector))
            /\ dog_pc' = "mode_publish"
            /\ UNCHANGED dog_frame
    /\ UNCHANGED connected

\* change_mode: self.client.publish("controller/action", mode.value, qos=1);
\* in _setup_real_robot change_mode(Mode.Stand) is followed, after a sleep, by
\* change_mode of the initial mode
ChangeModePublish(raises) ==
    /\ dog_pc = "mode_publish"
    /\ IF raises
       THEN /\ dog_pc' = AfterRaise
            /\ dog_frame' = Ended(dog_frame, "raised")
            /\ UNCHANGED published
       ELSE /\ Publish(ActionMessage(dog_frame.mode))
            /\ IF dog_frame.caller = "setup_stand"
               THEN /\ dog_pc' = "mode_stop"
                    /\ dog_frame' = [op |-> "change_mode",
                                     mode |-> ROBOT_SETTINGS.initial_mode,
                                     caller |-> "setup_initial", outcome |-> "running"]
               ELSE /\ dog_pc' = "ready"
                    /\ dog_frame' = Ended(dog_frame, "returned")
    /\ UNCHANGED connected

\* the thread, between two calls, calls a motion helper, which calls
\* move_over_time(x, y, z, w, time)
CallHelper(helper, speed, time) ==
    /\ dog_pc = "ready"
    /\ dog_pc' = IF Ticks(time) > 0 THEN "loop_move" ELSE "loop_stop"
    /\ dog_frame' = [op |-> "move_over_time", helper |-> helper,
                     v |-> HelperVector(helper, speed), ticks |-> Ticks(time),
                     caller |-> "user", outcome |-> "running"]
    /\ UNCHANGED <<connected, published>>

\* move_over_time: self.move(x, y, z, w) in the loop
LoopMove(raises) ==
    /\ dog_pc = "loop_move"
    /\ IF raises
       THEN /\ dog_pc' = "ready"
            /\ dog_frame' = Ended(dog_frame, "raised")
            /\ UNCHANGED published
       ELSE /\ Publish(StickMessage(dog_frame.v))
            /\ dog_pc' = "loop_sleep"
            /\ UNCHANGED dog_frame
    /\ UNCHANGED connected

\* move_over_time: sleep(1 / FREQ) and the test of the loop
LoopSleep ==
    /\ dog_pc = "loop_sleep"
    /\ dog_frame' = [dog_frame EXCEPT !.ticks = @ - 1]
    /\ dog_pc' = IF dog_frame.ticks - 1 > 0 THEN "loop_move" ELSE "loop_stop"
    /\ UNCHANGED <<connected, published>>

\* move_over_time: self.stop_moving() after the loop
LoopStop(raises) ==
    /\ dog_pc = "loop_stop"
    /\ dog_pc' = "ready"
    /\ IF raises
       THEN /\ dog_frame' = Ended(dog_frame, "raised")
            /\ UNCHANGED published
       ELSE /\ Publish(StickMessage(ZeroVector))
            /\ dog_frame' = Ended(dog_frame, "returned")
    /\ UNCHANGED connected

\* the variables a session with the real dog leaves alone
sessionIdleVars == <<robotVars, call, halt, script, backendVars, restVars>>

\* the steps of the thread that builds and drives the Dog
DogThread ==
    \/ \E library \in BOOLEAN : SetupImport(library) /\ UNCHANGED sessionIdleVars
    \/ \E raises \in BOOLEAN : DogConnect(raises) /\ UNCHANGED sessionIdleVars
    \/ DogWait /\ UNCHANGED sessionIdleVars
    \/ \E mode \in DogModes : CallChangeMode(mode) /\ UNCHANGED sessionIdleVars
    \/ \E raises \in BOOLEAN : ChangeModeStop(raises) /\ UNCHANGED sessionIdleVars
    \/ \E raises \in BOOLEAN : ChangeModePublish(raises) /\ UNCHANGED sessionIdleVars
    \/ \E helper \in Helpers : \E speed \in DogSpeeds : \E time \in DogTimes :
            CallHelper(helper, speed, time) /\ UNCHANGED sessionIdleVars
    \/ \E raises \in BOOLEAN : LoopMove(raises) /\ UNCHANGED sessionIdleVars
    \/ LoopSleep /\ UNCHANGED sessionIdleVars
    \/ \E raises \in BOOLEAN : LoopStop(raises) /\ UNCHANGED sessionIdleVars

NextHardware ==
    \/ DogThread
    \/ Connack /\ UNCHANGED sessionIdleVars

SpecHardware == HardwareInit /\ [][NextHardware]_vars

\* the thread keeps running: a step of it that stays possible is taken; the
\* broker owes no acknowledgement
SpecHardwareFair == SpecHardware /\ WF_vars(DogThread)

-----------------------------------------------------------------------------
(* The claims about the grid engine *)

\* the directions and displacements the specification names
DirectionNames == {UP, DOWN, LEFT, RIGHT, BACKWARD}

Named(direction) == lower(direction) \in DirectionNames

TargetX(direction) ==
    position.x + (IF lower(direction) = RIGHT THEN 1
                  ELSE IF lower(direction) \in {LEFT, BACKWARD} THEN -1 ELSE 0)

TargetY(direction) ==
    position.y + (IF lower(direction) = UP THEN 1
                  ELSE IF lower(direction) = DOWN THEN -1 ELSE 0)

TargetInBounds(direction) ==
    /\ 0 <= TargetX(direction) /\ TargetX(direction) < grid_width
    /\ 0 <= TargetY(direction) /\ TargetY(direction) < grid_height

TargetIsWall(direction) == <<TargetX(direction), TargetY(direction)>> \in walls

\* C1: whenever the stopped flag is false, the current cell lies inside
\* [0,width) x [0,height) and is not a wall (move, add_wall, load_maze and
\* reset_simulation only: SpecGrid).
C1_CurrentInGridOffWalls ==
    ~_simulation_stopped =>
        /\ 0 <= position.x /\ position.x < grid_width
        /\ 0 <= position.y /\ position.y < grid_height
        /\ <<position.x, position.y>> \notin walls

C3_MoveDisplacement ==
    [][/\ (/\ call'.op = "move"
           /\ ~_simulation_stopped
           /\ Named(call'.direction)
           /\ TargetInBounds(call'.direction)
           /\ ~TargetIsWall(call'.direction)) =>
                /\ call'.ret = "True"
                /\ position' = [x |-> TargetX(call'.direction),
                                y |-> TargetY(call'.direction)]
       /\ NewPosition(position, Direction(LEFT)) = NewPosition(position, Direction(BACKWARD))
      ]_vars

\* a backward move has succeeded
C3_Witness ==
    /\ call.op = "move" /\ call.outcome = "success"
    /\ lower(move_log[Len(move_log)].direction) = BACKWARD

\* C4: a move in a named direction whose target lies outside the grid returns
\* False, leaves the position unchanged and leaves the stopped flag set.
C4_BoundaryBlocks ==
    [][(/\ call'.op = "move"
        /\ Named(call'.direction)
        /\ ~TargetInBounds(call'.direction)) =>
                /\ call'.ret = "False"
                /\ position' = position
                /\ _simulation_stopped']_vars

\* a move from a cell of the grid has hit the boundary
C4_Witness ==
    /\ call.op = "move" /\ call.outcome = "boundary"
    /\ 0 <= position.x /\ position.x < grid_width
    /\ 0 <= position.y /\ position.y < grid_height
    /\ _simulation_stopped

C7_ResetRestores ==
    [][/\ call'.op = "reset_simulation" =>
            /\ call'.ret = "None"
            /\ position' = start_position'
            /\ ~_simulation_stopped'
            /\ move_log' = <<>>
            /\ UNCHANGED <<start_position, grid_width, grid_height, walls>>
       /\ (call.op = "reset_simulation" /\ call'.op = "reset_simulation") =>
            UNCHANGED robotVars]_vars

\* reset_simulation has run on a robot with walls
C7_Witness ==
    /\ call.op = "reset_simulation"
    /\ walls # {}
    /\ position = start_position /\ move_log = <<>> /\ ~_simulation_stopped

\* C8: add_wall at the robot's current cell raises and leaves the wall set
\* unchanged; add_wall of a cell that is a wall leaves the wall set unchanged.
C8_WallAtRobotRejected ==
    [][/\ (call'.op = "add_wall" /\ call'.x = position.x /\ call'.y = position.y) =>
            /\ call'.ret = "ValueError"
            /\ walls' = walls
       /\ (call'.op = "add_wall" /\ <<call'.x, call'.y>> \in walls) =>
            walls' = walls]_vars

\* add_wall at the robot's current cell, away from the start cell, has raised
C8_Witness ==
    /\ call.op = "add_wall" /\ call.ret = "ValueError"
    /\ call.x = position.x /\ call.y = position.y
    /\ position # start_position

\* C9: add_wall of a cell outside the grid leaves the wall set unchanged, and
\* every cell an add_wall call adds is a cell of the grid.
C9_WallOutsideGridRejected ==
    [][/\ (/\ call'.op = "add_wall"
           /\ ~(/\ 0 <= call'.x /\ call'.x < grid_width
                /\ 0 <= call'.y /\ call'.y < grid_height)) =>
                walls' = walls
       /\ call'.op = "add_wall" =>
            \A cell \in walls' \ walls :
                /\ 0 <= cell[1] /\ cell[1] < grid_width
                /\ 0 <= cell[2] /\ cell[2] < grid_height]_vars

\* add_wall of a cell outside the grid, not the robot's, has been ignored
C9_Witness ==
    /\ call.op = "add_wall" /\ call.outcome = "ignore"
    /\ ~(/\ 0 <= call.x /\ call.x < grid_width
         /\ 0 <= call.y /\ call.y < grid_height)
    /\ <<call.x, call.y>> \notin walls

\* C10: a move made while the stopped flag is clear appends exactly one record
\* to the move log, whatever its outcome; a move made while it is set appends
\* none.
C10_OneRecordPerMove ==
    [][call'.op = "move" =>
            IF _simulation_stopped
            THEN move_log' = move_log
            ELSE /\ Len(move_log') = Len(move_log) + 1
                 /\ SubSeq(move_log', 1, Len(move_log)) = move_log]_vars

-----------------------------------------------------------------------------
(* The claims about scripts and about the stop flag *)

\* the program of the scenario: 5x5 grid, start (0,0), one wall at (2,0)
InScenario ==
    /\ start_position = Position(0, 0)
    /\ grid_width = 5 /\ grid_height = 5
    /\ walls = {<<2, 0>>}

\* the first two moves of the scenario and the refusal of the third
ScenarioSteps ==
    /\ (InScenario /\ script' = <<RIGHT>>) =>
            position' = Position(1, 0) /\ call'.ret = "True" /\ ~_simulation_stopped'
    /\ (InScenario /\ script' = <<RIGHT, RIGHT>>) =>
            /\ position' = Position(1, 0) /\ call'.ret = "False"
            /\ call'.outcome = "obstacle" /\ _simulation_stopped'
    /\ (InScenario /\ script' = <<RIGHT, RIGHT, UP>>) =>
            /\ call'.ret = "False"
            /\ position' = Position(1, 0) /\ _simulation_stopped'

\* C11 as stated: in the scenario with the moves right, right, up, move 1
\* reaches (1,0), move 2 is blocked by the wall at (1,0) with the stopped
\* flag set, move 3 is rejected with no state change, and the move log then
\* has length 3.
C11_ScenarioLogOfThree ==
    [][script' # script =>
        /\ ScenarioSteps
        /\ (InScenario /\ script' = <<RIGHT, RIGHT, UP>>) =>
                UNCHANGED robotVars /\ Len(move_log') = 3]_vars

\* C11 as amended: the same, but the move log then has length 2, with the
\* outcomes success and obstacle: the rejected third move appends nothing.
C11_ScenarioLogOfTwo ==
    [][script' # script =>
        /\ ScenarioSteps
        /\ (InScenario /\ script' = <<RIGHT, RIGHT, UP>>) =>
                /\ UNCHANGED robotVars
                /\ Len(move_log') = 2
                /\ move_log'[1].success /\ move_log'[1].reason = "success"
                /\ ~move_log'[2].success /\ move_log'[2].reason = "obstacle"]_vars

\* the three moves of the scenario have been made
C11_Witness ==
    /\ InScenario /\ script = <<RIGHT, RIGHT, UP>>
    /\ position = Position(1, 0) /\ _simulation_stopped
    /\ call.op = "move" /\ call.outcome = "stopped"

-----------------------------------------------------------------------------
(* The claims about the backends *)

\* the go_* calls among the calls handed to the dog
GoCalls(log) == SelectSeq(log, LAMBDA c : c.method # "change_mode")

\* C13: a move of the SimulationController or the Go1Controller with a
\* direction that, lower-cased, is none of up, down, left, right ('backward'
\* included) returns False without raising and leaves the robot's position,
\* move log and stop flag and the calls handed to the dog unchanged.
C13_InvalidDirectionRefused ==
    [][(/\ bcall'.op = "move"
        /\ backend.kind \in {"SimulationController", "Go1Controller"}
        /\ lower(bcall'.direction) \notin {UP, DOWN, LEFT, RIGHT}) =>
            /\ bcall'.ret = "False"
            /\ UNCHANGED <<robotVars, dog_log>>]_vars

\* the SimulationController has refused 'backward' on a robot that had moved
\* and stays free to move
C13_Witness ==
    /\ backend.kind = "SimulationController"
    /\ bcall.op = "move" /\ bcall.direction = BACKWARD /\ bcall.ret = "False"
    /\ position # start_position /\ ~_simulation_stopped /\ move_log # <<>>

\* C14: for a direction among up, down, left, right and every speed and time,
\* a move of the SimulationController is one Robot.move(direction) step on
\* the grid and returns what that step returns.
C14_SimulatorMoveIsRobotMove ==
    [][(/\ bcall'.op = "move"
        /\ backend.kind = "SimulationController"
        /\ bcall'.direction \in {UP, DOWN, LEFT, RIGHT}) =>
            /\ Move(bcall'.direction)
            /\ bcall'.ret = call'.ret]_vars

\* a move of the SimulationController with a negative speed has succeeded
C14_Witness ==
    /\ backend.kind = "SimulationController"
    /\ bcall.op = "move" /\ bcall.direction \in {UP, DOWN, LEFT, RIGHT}
    /\ bcall.speed < 0 /\ bcall.ret = "True"
    /\ position # start_position

\* C15: every speed handed to the dog by a move of a hardware or mock backend
\* lies in [0, 1], whatever speed the caller passed and whatever speed
\* ROBOT_SETTINGS holds.
C15_HandedSpeedInRange ==
    \A i \in 1..Len(dog_log) :
        dog_log[i].method # "change_mode" =>
            0 <= dog_log[i].speed /\ dog_log[i].speed <= One

\* C16: a hardware backend built without the go1_py library or against a
\* host that cannot be reached ends with a mock dog and does not raise; a
\* following move('up') returns True and leaves exactly one forward call, with
\* a speed in [0, 1], among the calls handed to the mock.
C16_UnreachableFallsBackToMock ==
    /\ [](/\ bcall.op \in {"Go1Controller", "RobotInterface"}
          /\ ~(bcall.library /\ bcall.reachable)
          => /\ bcall.ret = "None"
             /\ backend.dog \in {"FakeDog", "MockDog"})
    /\ [][(/\ bcall.op \in {"Go1Controller", "RobotInterface"}
           /\ ~(bcall.library /\ bcall.reachable)
           /\ bcall'.op = "move" /\ bcall'.direction = UP) =>
                /\ bcall'.ret = "True"
                /\ Len(GoCalls(dog_log')) = 1
                /\ GoCalls(dog_log')[1].method = "go_forward"
                /\ 0 <= GoCalls(dog_log')[1].speed
                /\ GoCalls(dog_log')[1].speed <= One]_vars

-----------------------------------------------------------------------------
(* The claims about the session with the real dog *)

\* the messages of a log published on controller/stick
Sticks(log) == SelectSeq(log, LAMBDA m : m.topic = "controller/stick")

ZeroStick == [topic |-> "controller/stick", payload |-> <<0, 0, 0, 0>>]

\* C17: the construction of a hardware backend always terminates, with the
\* real dog or with the mock; if the transport never reports connected, it
\* ends with the mock (the thread keeps running: SpecHardwareFair).
C17_ConstructionTerminates ==
    /\ <>(dog_pc \in {"ready", "mock"})
    /\ <>(connected \/ dog_pc = "mock")

\* C18: whenever move_over_time stops executing, by returning or because a
\* publish inside the loop has raised, the last vector published on
\* controller/stick is the zero vector.
C18_StopsWithZeroVector ==
    [][(/\ dog_frame.op = "move_over_time"
        /\ dog_pc' = "ready"
        /\ \/ dog_pc = "loop_move"
           \/ dog_pc = "loop_stop" /\ dog_frame'.outcome = "returned") =>
            /\ Sticks(published') # <<>>
            /\ Sticks(published')[Len(Sticks(published'))] = ZeroStick]_vars

\* C19: a change_mode call that publishes the mode has published the zero
\* vector on controller/stick right before it, with nothing in between; so
\* every mode message follows a zero vector.
C19_ZeroVectorBeforeMode ==
    [][/\ (/\ dog_pc = "mode_publish"
           /\ dog_pc' # dog_pc
           /\ dog_frame'.outcome # "raised") =>
                /\ Len(published') >= 2
                /\ published'[Len(published')] =
                        [topic |-> "controller/action", payload |-> dog_frame.mode]
                /\ published'[Len(published') - 1] = ZeroStick
       /\ \A i \in 2..Len(published') :
            published'[i].topic = "controller/action" => published'[i - 1] = ZeroStick
      ]_vars

\* a change_mode(stand) called after the construction has returned
C19_Witness ==
    /\ dog_pc = "ready"
    /\ dog_frame.op = "change_mode" /\ dog_frame.caller = "user"
    /\ dog_frame.outcome = "returned"
    /\ published = <<ZeroStick, [topic |-> "controller/action", payload |-> "stand"]>>

\* C20: every vector Dog.move publishes has its four axes in [-1, 1]: an axis
\* above 1 is sent as 1, one below -1 as -1, one in range unchanged; so for
\* every helper, those that negate the speed included.
C20_PublishedAxesClipped ==
    [][/\ (dog_pc = "loop_move" /\ dog_pc' = "loop_sleep") =>
            LET sent == published'[Len(published')] IN
            /\ sent.topic = "controller/stick"
            /\ \A i \in 1..4 :
                /\ dog_frame.v[i] > One => sent.payload[i] = One
                /\ dog_frame.v[i] < -One => sent.payload[i] = -One
                /\ (-One <= dog_frame.v[i] /\ dog_frame.v[i] <= One) =>
                        sent.payload[i] = dog_frame.v[i]
       /\ \A k \in 1..Len(published') :
            published'[k].topic = "controller/stick" =>
                \A i \in 1..4 : /\ -One <= published'[k].payload[i]
                                /\ published'[k].payload[i] <= One
      ]_vars

\* go_backward with a speed above 1 has published its vector
C20_Witness ==
    /\ dog_pc = "loop_sleep"
    /\ dog_frame.helper = "go_backward"
    /\ dog_frame.v = <<0, 0, 0, -15>>
    /\ published[Len(published)] =
            [topic |-> "controller/stick", payload |-> <<0, 0, 0, -One>>]


\* ---------------------------------------------------------------------------
\* Telemetry parsers of go1_py: a payload is the numpy uint8 array on_message
\* builds from the bytes of an MQTT message, here a sequence of 0..255 whose
\* element i + 1 is payload[i].
\* ---------------------------------------------------------------------------

MaxPayloadLen == 46

\* payload[a:b]: a slice stops at the end of the array, it never raises
Slice(payload, a, b) ==
    SubSeq(payload, (IF a < Len(payload) THEN a ELSE Len(payload)) + 1,
                    IF b < Len(payload) THEN b ELSE Len(payload))

RECURSIVE LittleEndian(_)
\* the unsigned integer a run of bytes holds, lowest byte first
LittleEndian(bytes) ==
    IF bytes = <<>> THEN 0 ELSE Head(bytes) + 256 * LittleEndian(Tail(bytes))

\* np.frombuffer(bytes, dtype): the elements of itemsize bytes each, every
\* one the integer its bytes hold: unsigned, or in two's complement when
\* signed, where the highest byte carries the sign
FromBuffer(bytes, itemsize, signed) ==
    [k \in 1..(Len(bytes) \div itemsize) |->
        LET high == bytes[k * itemsize]
        IN  LittleEndian(SubSeq(bytes, (k - 1) * itemsize + 1, k * itemsize - 1))
            + (IF signed /\ high >= 128 THEN high - 256 ELSE high)
              * 256 ^ (itemsize - 1)]

RECURSIVE Sum(_)
\* ndarray.sum(): numpy adds uint16 elements in a 64-bit accumulator, which
\* ten (or fewer) cell voltages cannot overflow
Sum(array) == IF array = <<>> THEN 0 ELSE Head(array) + Sum(Tail(array))

\* BMS(): the frame before parse fills it
BMS ==
    [version |-> "unknown", status |-> 0, soc |-> 0, current |-> 0,
     cycle |-> 0, temps |-> <<0, 0, 0, 0>>, voltage |-> 0,
     cellVoltages |-> <<0, 0, 0, 0, 0, 0, 0, 0, 0, 0>>]

\* lines 8-13 of parse: what they raise, if anything. payload[0..3] raise
\* IndexError when missing; frombuffer raises ValueError on a slice cut inside
\* an element, and [0] of an empty array raises IndexError
BmsHeaderRaises(payload) ==
    LET current == Slice(payload, 4, 8)
        cycle == Slice(payload, 8, 10)
    IN  IF Len(payload) < 4 THEN "IndexError"
        ELSE IF Len(current) % 4 # 0 THEN "ValueError"
        ELSE IF current = <<>> THEN "IndexError"
        ELSE IF Len(cycle) % 2 # 0 THEN "ValueError"
        ELSE IF cycle = <<>> THEN "IndexError"
        ELSE "none"

\* lines 8-13 of parse when they do not raise
BmsHeader(bms, payload) ==
    [bms EXCEPT
        !.version = ToString(payload[1]) \o "." \o ToString(payload[2]),
        !.status = payload[3],
        !.soc = payload[4],
        !.current = FromBuffer(Slice(payload, 4, 8), 4, TRUE)[1],
        !.cycle = FromBuffer(Slice(payload, 8, 10), 2, FALSE)[1],
        !.temps = Slice(payload, 10, 14)]

\* line 14 of parse: what it raises, if anything
BmsCellsRaises(payload) ==
    IF Len(Slice(payload, 14, 34)) % 2 # 0 THEN "ValueError" ELSE "none"

\* lines 14-15 of parse when they do not raise: the cell voltages are as many
\* as payload[14:34] holds
BmsCells(bms, payload) ==
    [bms EXCEPT
        !.cellVoltages = FromBuffer(Slice(payload, 14, 34), 2, FALSE),
        !.voltage = Sum(FromBuffer(Slice(payload, 14, 34), 2, FALSE))]

\* parsers/bms.py parse(payload): what it returns or raises
BmsParseOutcome(payload) ==
    IF BmsHeaderRaises(payload) # "none"
    THEN [outcome |-> BmsHeaderRaises(payload), ret |-> "None"]
    ELSE IF BmsCellsRaises(payload) # "none"
    THEN [outcome |-> BmsCellsRaises(payload), ret |-> "None"]
    ELSE [outcome |-> "returned", ret |-> BmsCells(BmsHeader(BMS, payload), payload)]

\* bms_parser(payload) is called
BmsParse(payload) ==
    /\ decoded' = [op |-> "bms.parse", payload |-> payload,
                   outcome |-> BmsParseOutcome(payload).outcome,
                   ret |-> BmsParseOutcome(payload).ret]
    /\ UNCHANGED slotVars

\* a BMS payload of n bytes filled from a seed
BmsPayload(n, seed) == [i \in 1..n |-> (seed + 7 * (i - 1)) % 256]

\* the payloads handed to the BMS parser: every length up to MaxPayloadLen
BmsPayloads == {BmsPayload(n, seed) : n \in 0..MaxPayloadLen, seed \in {0, 200, 255}}

\* warning scalars are kept in hundredths: 0.2 is 20, 1 is 100
Hundred == 100

\* distanceToWarning without the interpolation between 10 and 30
distanceToWarningFlat(distance) ==
    IF distance > 30 THEN 0
    ELSE IF distance < 10 THEN Hundred
    ELSE 20

\* parsers/robot.py distanceToWarning(distance), in hundredths; the Python
\* int 30 minus a numpy uint8 is a uint8
distanceToWarning(distance) ==
    IF distance > 30 THEN 0
    ELSE IF distance < 10 THEN Hundred
    ELSE 20 + (80 * ((30 - distance) % 256)) \div 20

\* Robot() of go1_py.state: the frame before parse fills it
TelemetryRobot ==
    [version |-> [hardware |-> "--", software |-> "--"],
     sn |-> [product |-> "--", id |-> "--"],
     temps |-> [i \in 1..20 |-> 0],
     mode |-> 0,
     gaitType |-> 0,
     obstacles |-> <<255, 255, 255, 255>>,
     state |-> "invalid",
     distanceWarning |-> [front |-> 0, back |-> 0, left |-> 0, right |-> 0]]

\* match payload[0]: the product name, when a case binds it; "<unbound>"
\* stands for a local name no case has bound
ProductName(code) ==
    CASE code = 1 -> "Laikago"
      [] code = 2 -> "Aliengo"
      [] code = 3 -> "A1"
      [] code = 4 -> "Go1"
      [] code = 5 -> "B1"
      [] OTHER -> "<unbound>"

\* match payload[1]: the product model, when a case binds it
ProductModel(code) ==
    CASE code = 1 -> "AIR"
      [] code = 2 -> "PRO"
      [] code = 3 -> "EDU"
      [] code = 4 -> "PC"
      [] code = 5 -> "XX"
      [] OTHER -> "<unbound>"

\* robot.state after lines 22-29: set only for mode 2 and gait 1, 2, 3
GaitState(mode, gaitType, state) ==
    IF mode = 2
    THEN CASE gaitType = 1 -> "walk"
           [] gaitType = 2 -> "run"
           [] gaitType = 3 -> "climb"
           [] OTHER -> state
    ELSE state

\* lines 16-17 of parse: a new Robot with the temperatures payload[8:28] holds
ParseTemps(payload) == [TelemetryRobot EXCEPT !.temps = Slice(payload, 8, 28)]

\* lines 19-33 of parse, entered when len(payload) > 28 and every byte they
\* index is there
ParseStatus(robot, payload) ==
    LET obstacles == Slice(payload, 30, 34)
    IN  [robot EXCEPT
            !.mode = payload[29],
            !.gaitType = payload[30],
            !.obstacles = obstacles,
            !.state = GaitState(payload[29], payload[30], robot.state),
            !.distanceWarning =
                [front |-> distanceToWarning(obstacles[1]),
                 left |-> distanceToWarning(obstacles[2]),
                 right |-> distanceToWarning(obstacles[3]),
                 back |-> distanceToWarning(obstacles[4])]]

\* lines 57-62 of parse, entered when len(payload) >= 44 and name and model
\* are bound
ParseIdentity(robot, payload) ==
    [robot EXCEPT
        !.sn = [product |-> ProductName(payload[1]) \o "_" \o ProductModel(payload[2]),
                id |-> IF payload[3] < 255
                       THEN ToString(payload[3]) \o "-" \o ToString(payload[4]) \o "-"
                            \o ToString(payload[5]) \o "[" \o ToString(payload[6]) \o "]"
                       ELSE robot.sn.id],
        !.version = [hardware |-> IF payload[37] < 255
                                  THEN ToString(payload[37]) \o "." \o ToString(payload[38])
                                       \o "." \o ToString(payload[39])
                                  ELSE robot.version.hardware,
                     software |-> ToString(payload[40]) \o "." \o ToString(payload[41])
                                  \o "." \o ToString(payload[42])]]

\* parsers/robot.py parse(payload): what it returns or raises. payload[29] of
\* a 29-byte payload and robot.obstacles[k] of a slice shorter than four raise
\* IndexError; the f-string of line 57 raises UnboundLocalError when no case
\* bound name or model
RobotParseOutcome(payload) ==
    LET n == Len(payload)
        status == IF n > 28 THEN ParseStatus(ParseTemps(payload), payload)
                  ELSE ParseTemps(payload)
    IN  IF n > 28 /\ n < 34 THEN [outcome |-> "IndexError", ret |-> "None"]
        ELSE IF n < 44 THEN [outcome |-> "returned", ret |-> status]
        ELSE IF ProductName(payload[1]) = "<unbound>" \/ ProductModel(payload[2]) = "<unbound>"
        THEN [outcome |-> "UnboundLocalError", ret |-> "None"]
        ELSE [outcome |-> "returned", ret |-> ParseIdentity(status, payload)]

\* robot_parser(payload) is called
RobotParse(payload) ==
    /\ decoded' = [op |-> "robot.parse", payload |-> payload,
                   outcome |-> RobotParseOutcome(payload).outcome,
                   ret |-> RobotParseOutcome(payload).ret]
    /\ UNCHANGED slotVars

\* a robot payload of n bytes with the given mode, gait, front obstacle
\* distance, product codes and a fill for the serial and hardware bytes
RobotPayload(n, mode, gait, d, name, model, fill) ==
    [i \in 1..n |->
        CASE i = 1 -> name
          [] i = 2 -> model
          [] i = 3 -> fill
          [] i = 29 -> mode
          [] i = 30 -> gait
          [] i = 31 -> d
          [] i = 37 -> fill
          [] OTHER -> (3 * i) % 256]

\* the payloads handed to the robot parser: every length up to MaxPayloadLen;
\* every mode and gait around the decoded ones; every obstacle distance;
\* known and unknown product codes
RobotPayloads ==
    {RobotPayload(n, 2, 1, 20, 4, 3, 7) : n \in 0..MaxPayloadLen}
    \cup {RobotPayload(n, mode, gait, 20, 4, 3, 7) :
            n \in {34, 44}, mode \in 0..3, gait \in 0..4}
    \cup {RobotPayload(34, 2, 2, d, 4, 3, 7) : d \in 0..255}
    \cup {RobotPayload(n, 2, 3, 5, name, model, fill) :
            n \in {44, MaxPayloadLen}, name \in {0, 1, 5, 6}, model \in {0, 3, 6},
            fill \in {7, 255}}

TelemetryInit ==
    /\ NoRobot
    /\ NoBackend
    /\ NoDog
    /\ NoRest

NextTelemetry ==
    \/ \E payload \in BmsPayloads : BmsParse(payload) /\ UNCHANGED <<robotVars, call, halt, script, backendVars, dogVars, windowVars,
                         SIMULATOR_SETTINGS, creating>>
    \/ \E payload \in RobotPayloads : RobotParse(payload) /\ UNCHANGED <<robotVars, call, halt, script, backendVars, dogVars, windowVars,
                         SIMULATOR_SETTINGS, creating>>

SpecTelemetry == TelemetryInit /\ [][NextTelemetry]_vars

\* ---------------------------------------------------------------------------
\* Claims about the telemetry parsers
\* ---------------------------------------------------------------------------

\* cell voltage k (from 0) of a payload: bytes 14 + 2k and 15 + 2k, low first
CellVoltage(payload, k) == payload[15 + 2 * k] + 256 * payload[16 + 2 * k]

\* the sum of the ten cell voltages bytes 14..33 of a payload hold
TenCells(payload) ==
    CellVoltage(payload, 0) + CellVoltage(payload, 1) + CellVoltage(payload, 2)
    + CellVoltage(payload, 3) + CellVoltage(payload, 4) + CellVoltage(payload, 5)
    + CellVoltage(payload, 6) + CellVoltage(payload, 7) + CellVoltage(payload, 8)
    + CellVoltage(payload, 9)

\* C21: the BMS parser fails on every payload shorter than 34 bytes, and on a
\* payload of 34 bytes or more it returns a frame whose voltage is the sum of
\* the ten cell voltages the payload holds.
C21_ShortBmsPayloadFails ==
    decoded.op = "bms.parse" =>
        /\ Len(decoded.payload) < 34 => decoded.outcome # "returned"
        /\ Len(decoded.payload) >= 34 =>
            /\ decoded.outcome = "returned"
            /\ Len(decoded.ret.cellVoltages) = 10
            /\ decoded.ret.voltage = TenCells(decoded.payload)

\* C22: the robot parser never raises, whatever the length of the payload: it
\* returns a frame, and every field whose bytes the payload lacks holds the
\* default Robot() gives it.
C22_RobotParseNeverRaises ==
    decoded.op = "robot.parse" =>
        /\ decoded.outcome = "returned"
        /\ Len(decoded.payload) <= 28 =>
            /\ decoded.ret.mode = 0
            /\ decoded.ret.gaitType = 0
            /\ decoded.ret.obstacles = <<255, 255, 255, 255>>
            /\ decoded.ret.state = "invalid"
            /\ decoded.ret.distanceWarning =
                    [front |-> 0, back |-> 0, left |-> 0, right |-> 0]
        /\ Len(decoded.payload) < 44 =>
            /\ decoded.ret.sn = [product |-> "--", id |-> "--"]
            /\ decoded.ret.version = [hardware |-> "--", software |-> "--"]

\* the product code or the model code of a payload is none of 1..5
UnknownProduct(payload) == payload[1] \notin 1..5 \/ payload[2] \notin 1..5

\* C23: on a payload of 44 bytes or more whose product name code or model code
\* is not recognized the robot parser still returns a frame: the product is
\* left at its default, and the temperatures, mode, gait, obstacle distances
\* and software version are those of the payload.
C23_UnknownProductStillDecodes ==
    (/\ decoded.op = "robot.parse"
     /\ Len(decoded.payload) >= 44
     /\ UnknownProduct(decoded.payload)) =>
        /\ decoded.outcome = "returned"
        /\ decoded.ret.sn.product = "--"
        /\ decoded.ret.temps = SubSeq(decoded.payload, 9, 28)
        /\ decoded.ret.mode = decoded.payload[29]
        /\ decoded.ret.gaitType = decoded.payload[30]
        /\ decoded.ret.obstacles = SubSeq(decoded.payload, 31, 34)
        /\ decoded.ret.version.software # "--"

\* a call of the robot parser that returned a frame with the four obstacle
\* distances of its payload
StatusDecoded(r) ==
    /\ r.op = "robot.parse"
    /\ r.outcome = "returned"
    /\ Len(r.payload) >= 34

\* the warning scalars of a frame in the order of the obstacle bytes
Warnings(ret) ==
    <<ret.distanceWarning.front, ret.distanceWarning.left,
      ret.distanceWarning.right, ret.distanceWarning.back>>

\* the warning w (in hundredths) an obstacle distance d is given, with the
\* value claimed for d = 20
WarningLaw(d, w, at20) ==
    /\ d > 30 => w = 0
    /\ d < 10 => w = 100
    /\ (10 <= d /\ d <= 30) => 5 * (w - 20) = 20 * (30 - d)
    /\ d = 20 => w = at20
    /\ 0 <= w /\ w <= 100

\* of two parsed frames, the one with the larger obstacle distance has no
\* larger warning
WarningNeverIncreases ==
    (StatusDecoded(decoded) /\ StatusDecoded(decoded')) =>
        \A k \in 1..4 :
            decoded.payload[30 + k] <= decoded'.payload[30 + k] =>
                Warnings(decoded.ret)[k] >= Warnings(decoded'.ret)[k]

\* C24 as stated: for every obstacle distance byte d the warning is 0 when
\* d > 30, 1 when d < 10 and 0.2 + 0.8 * (30 - d) / 20 between, which is 0.7
\* at d = 20; it lies in [0, 1] and never increases as d increases.
C24_WarningScalarSevenTenths ==
    [][/\ StatusDecoded(decoded') =>
            \A k \in 1..4 :
                WarningLaw(decoded'.payload[30 + k], Warnings(decoded'.ret)[k], 70)
       /\ WarningNeverIncreases
      ]_vars

\* C24, amended: for every obstacle distance byte d the warning is 0 when
\* d > 30, 1 when d < 10 and 0.2 + 0.8 * (30 - d) / 20 between, which is 0.6
\* at d = 20; it lies in [0, 1] and never increases as d increases.
C24_WarningScalar ==
    [][/\ StatusDecoded(decoded') =>
            \A k \in 1..4 :
                WarningLaw(decoded'.payload[30 + k], Warnings(decoded'.ret)[k], 60)
       /\ WarningNeverIncreases
      ]_vars

\* a frame parsed from a payload whose front obstacle is at distance 20
C24_Witness ==
    /\ StatusDecoded(decoded)
    /\ decoded.payload[31] = 20
    /\ decoded.ret.distanceWarning.front = 60

\* the state the mode and gait bytes of a payload stand for
ExpectedState(payload) ==
    IF Len(payload) >= 30 /\ payload[29] = 2 /\ payload[30] = 1 THEN "walk"
    ELSE IF Len(payload) >= 30 /\ payload[29] = 2 /\ payload[30] = 2 THEN "run"
    ELSE IF Len(payload) >= 30 /\ payload[29] = 2 /\ payload[30] = 3 THEN "climb"
    ELSE "invalid"

\* C25: the frame the robot parser gives for a payload has state walk, run or
\* climb exactly when the mode byte is 2 and the gait byte is 1, 2 or 3; for
\* every other pair, and for a payload too short to carry both bytes, the
\* state is invalid.
C25_StateFromModeAndGait ==
    decoded.op = "robot.parse" =>
        /\ decoded.outcome = "returned"
        /\ decoded.ret.state = ExpectedState(decoded.payload)

\* ---------------------------------------------------------------------------
\* The latest frames of a Dog: the MQTT thread runs on_message, which parses
\* a payload into a new object and assigns it to self.robot or self.bms, while
\* another thread reads dog.robot or dog.bms. Each step is one the interpreter
\* cannot be interrupted in: building the object, one tier of assignments to
\* its fields, the assignment to the attribute of the Dog, one attribute read.
\* ---------------------------------------------------------------------------

MaxMessages == 2

\* the messages on_message gets: robot and BMS payloads that parse, and some
\* that raise
Messages ==
    {[topic |-> "firmware/version", payload |-> payload] : payload \in
        {RobotPayload(28, 2, 1, 20, 4, 3, 7), RobotPayload(34, 2, 1, 20, 4, 3, 7),
         RobotPayload(44, 2, 3, 5, 1, 3, 7), RobotPayload(31, 2, 2, 20, 4, 3, 7),
         RobotPayload(44, 2, 3, 5, 0, 3, 7)}}
    \cup {[topic |-> "bms/state", payload |-> payload] : payload \in
        {BmsPayload(34, 0), BmsPayload(16, 200), BmsPayload(9, 0), BmsPayload(15, 0)}}

\* Dog.__init__: self.robot = Robot(), self.bms = BMS(), and the client is
\* subscribed
SlotInit ==
    /\ NoRobot
    /\ NoBackend
    /\ NoDog
    /\ NoWindow
    /\ NoFactory
    /\ decoded = [op |-> "none"]
    /\ heap = <<[kind |-> "Robot", frame |-> TelemetryRobot, built |-> FALSE, payload |-> <<>>],
                [kind |-> "BMS", frame |-> BMS, built |-> FALSE, payload |-> <<>>]>>
    /\ slot = [robot |-> 1, bms |-> 2]
    /\ parser = [pc |-> "idle", topic |-> "none", payload |-> <<>>, id |-> 0,
                 outcome |-> "none"]
    /\ reader = [pc |-> "idle", name |-> "none", ref |-> 0, seen |-> <<>>]

\* on_message entered with a message, and parse running in place on the object
\* the Dog holds
OnMessageInPlace(message) ==
    /\ parser.pc = "idle"
    /\ Len(heap) < 2 + MaxMessages
    /\ parser' = [pc |-> IF message.topic = "firmware/version" THEN "temps" ELSE "header",
                  topic |-> message.topic, payload |-> message.payload,
                  id |-> IF message.topic = "firmware/version" THEN slot.robot
                         ELSE slot.bms,
                  outcome |-> "running"]
    /\ UNCHANGED <<heap, slot, reader>>

\* on_message entered with a message, and parse starting from a copy of the
\* frame the Dog holds instead of a Robot() or a BMS()
OnMessagePatching(message) ==
    /\ parser.pc = "idle"
    /\ Len(heap) < 2 + MaxMessages
    /\ heap' = Append(heap,
            IF message.topic = "firmware/version"
            THEN [kind |-> "Robot", frame |-> heap[slot.robot].frame, built |-> TRUE,
                  payload |-> message.payload]
            ELSE [kind |-> "BMS", frame |-> heap[slot.bms].frame, built |-> TRUE,
                  payload |-> message.payload])
    /\ parser' = [pc |-> IF message.topic = "firmware/version" THEN "temps" ELSE "header",
                  topic |-> message.topic, payload |-> message.payload,
                  id |-> Len(heap) + 1, outcome |-> "running"]
    /\ UNCHANGED <<slot, reader>>

\* on_message entered with a message: the parser of its topic is called and
\* builds a Robot() or a BMS() of its own
OnMessage(message) ==
    /\ parser.pc = "idle"
    /\ Len(heap) < 2 + MaxMessages
    /\ heap' = Append(heap,
            IF message.topic = "firmware/version"
            THEN [kind |-> "Robot", frame |-> TelemetryRobot, built |-> TRUE,
                  payload |-> message.payload]
            ELSE [kind |-> "BMS", frame |-> BMS, built |-> TRUE,
                  payload |-> message.payload])
    /\ parser' = [pc |-> IF message.topic = "firmware/version" THEN "temps" ELSE "header",
                  topic |-> message.topic, payload |-> message.payload,
                  id |-> Len(heap) + 1, outcome |-> "running"]
    /\ UNCHANGED <<slot, reader>>

\* the exception leaves on_message: nothing is assigned to the Dog
ParserRaised(exception) ==
    [pc |-> "idle", topic |-> parser.topic, payload |-> parser.payload,
     id |-> parser.id, outcome |-> exception]

\* robot.temps = payload[8:28]
ParserTemps ==
    /\ parser.pc = "temps"
    /\ heap' = [heap EXCEPT ![parser.id].frame.temps = Slice(parser.payload, 8, 28)]
    /\ parser' = [parser EXCEPT !.pc = IF Len(parser.payload) > 28 THEN "status"
                                       ELSE "assign"]
    /\ UNCHANGED <<slot, reader>>

\* lines 19-33 of parse on a payload of 29..33 bytes: the fields assigned
\* before the IndexError
ParseStatusPartial(robot, payload) ==
    LET obstacles == Slice(payload, 30, 34)
    IN  IF Len(payload) = 29 THEN [robot EXCEPT !.mode = payload[29]]
        ELSE [robot EXCEPT
                !.mode = payload[29],
                !.gaitType = payload[30],
                !.obstacles = obstacles,
                !.state = GaitState(payload[29], payload[30], robot.state),
                !.distanceWarning =
                    [front |-> IF Len(obstacles) >= 1
                               THEN distanceToWarning(obstacles[1])
                               ELSE robot.distanceWarning.front,
                     left |-> IF Len(obstacles) >= 2
                              THEN distanceToWarning(obstacles[2])
                              ELSE robot.distanceWarning.left,
                     right |-> IF Len(obstacles) >= 3
                               THEN distanceToWarning(obstacles[3])
                               ELSE robot.distanceWarning.right,
                     back |-> robot.distanceWarning.back]]

\* lines 19-33 of parse
ParserStatus ==
    /\ parser.pc = "status"
    /\ IF Len(parser.payload) < 34
       THEN /\ heap' = [heap EXCEPT ![parser.id].frame =
                            ParseStatusPartial(@, parser.payload)]
            /\ parser' = ParserRaised("IndexError")
       ELSE /\ heap' = [heap EXCEPT ![parser.id].frame = ParseStatus(@, parser.payload)]
            /\ parser' = [parser EXCEPT !.pc = IF Len(parser.payload) >= 44
                                               THEN "identity" ELSE "assign"]
    /\ UNCHANGED <<slot, reader>>

\* lines 35-62 of parse
ParserIdentity ==
    /\ parser.pc = "identity"
    /\ IF \/ ProductName(parser.payload[1]) = "<unbound>"
          \/ ProductModel(parser.payload[2]) = "<unbound>"
       THEN /\ parser' = ParserRaised("UnboundLocalError")
            /\ UNCHANGED heap
       ELSE /\ heap' = [heap EXCEPT ![parser.id].frame = ParseIdentity(@, parser.payload)]
            /\ parser' = [parser EXCEPT !.pc = "assign"]
    /\ UNCHANGED <<slot, reader>>

\* lines 8-13 of bms parse when one of them raises: the fields assigned before
BmsHeaderPartial(bms, payload) ==
    [bms EXCEPT
        !.version = IF Len(payload) >= 2
                    THEN ToString(payload[1]) \o "." \o ToString(payload[2]) ELSE @,
        !.status = IF Len(payload) >= 3 THEN payload[3] ELSE @,
        !.soc = IF Len(payload) >= 4 THEN payload[4] ELSE @,
        !.current = IF Len(payload) >= 8
                    THEN FromBuffer(Slice(payload, 4, 8), 4, TRUE)[1] ELSE @]

\* lines 8-13 of bms parse
ParserHeader ==
    /\ parser.pc = "header"
    /\ IF BmsHeaderRaises(parser.payload) # "none"
       THEN /\ heap' = [heap EXCEPT ![parser.id].frame =
                            BmsHeaderPartial(@, parser.payload)]
            /\ parser' = ParserRaised(BmsHeaderRaises(parser.payload))
       ELSE /\ heap' = [heap EXCEPT ![parser.id].frame = BmsHeader(@, parser.payload)]
            /\ parser' = [parser EXCEPT !.pc = "cells"]
    /\ UNCHANGED <<slot, reader>>

\* lines 14-15 of bms parse
ParserCells ==
    /\ parser.pc = "cells"
    /\ IF BmsCellsRaises(parser.payload) # "none"
       THEN /\ parser' = ParserRaised(BmsCellsRaises(parser.payload))
            /\ UNCHANGED heap
       ELSE /\ heap' = [heap EXCEPT ![parser.id].frame = BmsCells(@, parser.payload)]
            /\ parser' = [parser EXCEPT !.pc = "assign"]
    /\ UNCHANGED <<slot, reader>>

\* self.robot = robot_parser(payload) or self.bms = bms_parser(payload): the
\* returned object is stored in the attribute
OnMessageAssign ==
    /\ parser.pc = "assign"
    /\ slot' = IF parser.topic = "firmware/version"
                THEN [slot EXCEPT !.robot = parser.id]
                ELSE [slot EXCEPT !.bms = parser.id]
    /\ parser' = [parser EXCEPT !.pc = "idle", !.outcome = "returned"]
    /\ UNCHANGED <<heap, reader>>

\* the two fields a reader reads of the object it got
Fields(object) ==
    IF object.kind = "Robot" THEN <<object.frame.state, object.frame.sn.product>>
    ELSE <<object.frame.soc, object.frame.voltage>>

\* a reader evaluates dog.robot or dog.bms
ReaderLoad(name) ==
    /\ reader.pc \in {"idle", "done"}
    /\ reader' = [pc |-> "first", name |-> name, ref |-> slot[name], seen |-> <<>>]
    /\ UNCHANGED <<heap, slot, parser>>

\* and reads one field of the object
ReaderFirst ==
    /\ reader.pc = "first"
    /\ reader' = [reader EXCEPT !.pc = "second",
                                !.seen = <<Fields(heap[reader.ref])[1]>>]
    /\ UNCHANGED <<heap, slot, parser>>

\* and later another
ReaderSecond ==
    /\ reader.pc = "second"
    /\ reader' = [reader EXCEPT !.pc = "done",
                                !.seen = Append(@, Fields(heap[reader.ref])[2])]
    /\ UNCHANGED <<heap, slot, parser>>

slotIdleVars == <<robotVars, call, halt, script, backendVars, dogVars, decoded, windowVars,
                  SIMULATOR_SETTINGS, creating>>

NextSlot ==
    \/ \E message \in Messages : OnMessage(message) /\ UNCHANGED slotIdleVars
    \/ ParserTemps /\ UNCHANGED slotIdleVars
    \/ ParserStatus /\ UNCHANGED slotIdleVars
    \/ ParserIdentity /\ UNCHANGED slotIdleVars
    \/ ParserHeader /\ UNCHANGED slotIdleVars
    \/ ParserCells /\ UNCHANGED slotIdleVars
    \/ OnMessageAssign /\ UNCHANGED slotIdleVars
    \/ \E name \in {"robot", "bms"} : ReaderLoad(name) /\ UNCHANGED slotIdleVars
    \/ ReaderFirst /\ UNCHANGED slotIdleVars
    \/ ReaderSecond /\ UNCHANGED slotIdleVars

SpecSlot == SlotInit /\ [][NextSlot]_vars

\* ---------------------------------------------------------------------------
\* Claims about the latest frames
\* ---------------------------------------------------------------------------

\* the frame parse returns for the payload an object is built from
Complete(object) ==
    IF ~object.built THEN (IF object.kind = "Robot" THEN TelemetryRobot ELSE BMS)
    ELSE IF object.kind = "Robot" THEN RobotParseOutcome(object.payload).ret
    ELSE BmsParseOutcome(object.payload).ret

\* C26: while on_message runs beside a reader of dog.robot or dog.bms, the
\* object the Dog or the reader holds is never changed, an attribute of the
\* Dog changes only to refer to the complete frame parse returned, and the
\* fields a reader has read are those of one complete frame, the one the Dog
\* held when the reader fetched it.
C26_ReadersSeeCompleteFrames ==
    [][/\ \A id \in 1..Len(heap) :
            id \in {slot.robot, slot.bms, reader.ref} => heap'[id] = heap[id]
       /\ \A name \in {"robot", "bms"} :
            slot'[name] # slot[name] =>
                /\ heap[slot'[name]].built
                /\ heap'[slot'[name]].frame = Complete(heap[slot'[name]])
       /\ (reader.pc # "first" /\ reader'.pc = "first") =>
                reader'.ref \in {slot.robot, slot.bms}
       /\ reader'.pc = "done" =>
            /\ heap'[reader'.ref].frame = Complete(heap'[reader'.ref])
            /\ reader'.seen = Fields(heap'[reader'.ref])
      ]_vars

\* a reader has read both fields of the previous robot frame after on_message
\* replaced it with a new one
C26_Witness ==
    /\ reader.pc = "done"
    /\ reader.name = "robot"
    /\ reader.ref = 3
    /\ slot.robot = 4
    /\ reader.seen = <<"climb", "Laikago_EDU">>
    /\ heap[4].frame.state = "walk"

\* ---------------------------------------------------------------------------
\* The simulator window. run_with_visualization starts the caller's moves in
\* a thread of their own (the executor) while the Tk main loop (the render
\* context) runs the timer callbacks of the animations and the window's
\* buttons. Both touch the same EnhancedSimulator: animating, _move_queue,
\* movement_trail and the canvas. An entry of movement_trail is a copy of a
\* position, or the Position object of the Robot itself (live), which a move
\* changes in place until reset_simulation gives the Robot a new one. sim.kind tells the two classes apart:
\* "visual" is myrobot/simulator/visual.py driven by api.py, "enhanced" is
\* unified_robot_control's enhanced_simulator.py driven by move_with_delay.
\* A step is a stretch of code that reads or writes shared state once.
\* ---------------------------------------------------------------------------

MaxMoves == 3

MaxResets == 1

\* an entry of movement_trail
Entry(pos, live) == [x |-> pos.x, y |-> pos.y, live |-> live]

\* movement_trail after the Robot has changed its Position object in place
Live(trail, pos) ==
    [i \in 1..Len(trail) |-> IF trail[i].live THEN Entry(pos, TRUE) ELSE trail[i]]

\* movement_trail after the Robot has taken a new Position object
Frozen(trail) == [i \in 1..Len(trail) |-> [trail[i] EXCEPT !.live = FALSE]]

\* start_visualization has run _setup: the window is running, the canvas
\* holds the scene, movement_trail = [robot.get_position()], _draw_robot has
\* put the robot item (sim.robot_item is the cell it is displayed at) on the
\* Robot's cell, and the executor is about to call the caller's first move
WindowInit ==
    /\ start_position = Position(0, 0)
    /\ position = Position(0, 0)
    /\ grid_width = 3
    /\ grid_height = 3
    /\ walls = {}
    /\ move_log = <<>>
    /\ _simulation_stopped = FALSE
    /\ call = [op |-> "__init__", outcome |-> "created", ret |-> "None"]
    /\ halt = "none"
    /\ script = <<>>
    /\ NoBackend
    /\ NoDog
    /\ NoTelemetry
    /\ NoFactory
    /\ \E kind \in {"visual", "enhanced"} :
        sim = [kind |-> kind, running |-> TRUE, animating |-> FALSE,
               _move_queue |-> <<>>, movement_trail |-> <<Entry(Position(0, 0), TRUE)>>,
               robot_item |-> Position(0, 0)]
    /\ canvas = <<>>
    /\ executor = [pc |-> "ready", n |-> 0, direction |-> "none",
                   old_pos |-> Position(0, 0), new_pos |-> Position(0, 0),
                   success |-> TRUE, failed |-> 0]
    /\ render = [pc |-> "idle", anims |-> <<>>, move |-> 0]
    /\ shown = [ctx |-> "none", started |-> <<>>, resets |-> 0]

\* Robot.move as Move, for a run whose length MaxMoves bounds
RobotMove(direction) ==
    LET outcome == MoveOutcome(direction)
        new == NewPosition(position, Direction(lower(direction)))
    IN
    /\ call' = [op |-> "move", direction |-> direction, outcome |-> outcome,
                ret |-> IF outcome = "success" THEN "True" ELSE "False"]
    /\ CASE outcome = "stopped" ->
              UNCHANGED <<position, move_log, _simulation_stopped, halt>>
         [] outcome = "invalid" ->
              /\ _simulation_stopped' = TRUE
              /\ halt' = "invalid"
              /\ UNCHANGED <<position, move_log>>
         [] outcome \in {"boundary", "obstacle"} ->
              /\ move_log' = Append(move_log,
                                LogRecord(direction, FALSE, outcome, position, move_log))
              /\ _simulation_stopped' = TRUE
              /\ halt' = "blocked"
              /\ UNCHANGED position
         [] outcome = "success" ->
              /\ position' = new
              /\ move_log' = Append(move_log,
                                LogRecord(direction, TRUE, "success", new, move_log))
              /\ UNCHANGED <<_simulation_stopped, halt>>
    /\ UNCHANGED <<start_position, grid_width, grid_height, walls>>

\* the step is one of the executor thread, or of the render context
By(ctx) == shown' = [shown EXCEPT !.ctx = ctx]

\* move_with_notification(direction) is called and copies the position:
\* old_pos = Position(program.robot.position.x, program.robot.position.y)
ExecCapture(direction) ==
    /\ executor.pc = "ready"
    /\ executor.n < MaxMoves
    /\ executor' = [executor EXCEPT !.pc = "move", !.n = @ + 1,
                                    !.direction = direction, !.old_pos = position]
    /\ By("executor")
    /\ UNCHANGED <<robotVars, call, halt, sim, canvas, render>>

\* success = original_move(direction)
ExecMove ==
    /\ executor.pc = "move"
    /\ RobotMove(executor.direction)
    /\ executor' = [executor EXCEPT
                        !.pc = "notify",
                        !.success = (MoveOutcome(executor.direction) = "success")]
    /\ sim' = [sim EXCEPT !.movement_trail = Live(@, position')]
    /\ By("executor")
    /\ UNCHANGED <<canvas, render>>

\* new_pos = program.robot.get_position(), then robot_moved up to the test of
\* self.animating: a successful move is appended to movement_trail; a failed
\* one goes on to the reset
ExecNotify ==
    /\ executor.pc = "notify"
    /\ IF executor.success
       THEN /\ sim' = [sim EXCEPT !.movement_trail = Append(@, Entry(position, FALSE))]
            /\ executor' = [executor EXCEPT
                                !.new_pos = position,
                                !.pc = IF sim.animating THEN "enqueue" ELSE "start"]
       ELSE /\ executor' = [executor EXCEPT !.new_pos = position, !.pc = "reset"]
            /\ UNCHANGED sim
    /\ By("executor")
    /\ UNCHANGED <<robotVars, call, halt, canvas, render>>

\* self._move_queue.append((old_copy, new_copy, move_delay)): the number of
\* the move in the caller's sequence and the copies of the two positions
ExecEnqueue ==
    /\ executor.pc = "enqueue"
    /\ sim' = [sim EXCEPT !._move_queue =
                    Append(@, [n |-> executor.n, old |-> executor.old_pos,
                               new |-> executor.new_pos])]
    /\ executor' = [executor EXCEPT !.pc = "sleep"]
    /\ By("executor")
    /\ UNCHANGED <<robotVars, call, halt, canvas, render>>

\* animate_move_with_trail called from robot_moved: it returns at once when
\* self.animating is set
ExecStartCheck ==
    /\ executor.pc = "start"
    /\ executor' = [executor EXCEPT !.pc = IF sim.animating THEN "sleep" ELSE "set"]
    /\ By("executor")
    /\ UNCHANGED <<robotVars, call, halt, sim, canvas, render>>

\* self.animating = True and step(0): the animation is under way, its later
\* steps are timer callbacks of the main loop
ExecStartSet ==
    /\ executor.pc = "set"
    /\ sim' = [sim EXCEPT !.animating = TRUE, !.robot_item = executor.old_pos]
    /\ render' = [render EXCEPT !.anims =
                    Append(@, [n |-> executor.n, old |-> executor.old_pos,
                               new |-> executor.new_pos])]
    /\ shown' = [shown EXCEPT !.ctx = "executor", !.started = Append(@, executor.n)]
    /\ executor' = [executor EXCEPT !.pc = "sleep"]
    /\ UNCHANGED <<robotVars, call, halt, canvas>>

\* _reset_robot: robot.reset_simulation(), the Position it leaves the Robot
\* with is appended to movement_trail, and the scene is drawn again, with a
\* new robot item on the Robot's cell:
\* _draw_scene of visual.py starts with canvas.delete('all'), which takes the
\* trail segments with it; _draw_complete_scene of enhanced_simulator.py
\* deletes only the items without the tag "trail"
ResetRobot ==
    /\ ResetSimulation
    /\ sim' = [sim EXCEPT !.movement_trail =
                    Append(Frozen(@), Entry(start_position, TRUE)),
                           !.robot_item = start_position]
    /\ canvas' = IF sim.kind = "visual" THEN <<>> ELSE canvas

\* robot_moved with success false: the warning box, then _reset_robot; in
\* enhanced_simulator.py _handle_wall_collision then raises RuntimeError,
\* which ends the caller's sequence, while in visual.py robot_moved returns
\* and move_with_notification returns False to the caller
ExecReset ==
    /\ executor.pc = "reset"
    /\ ResetRobot
    /\ executor' = [executor EXCEPT
                        !.pc = IF sim.kind = "visual" THEN "sleep" ELSE "raised",
                        !.failed = IF @ = 0 THEN executor.n ELSE @]
    /\ By("executor")
    /\ UNCHANGED render

\* time.sleep(move_delay), and the wrapped move returns to the caller
ExecSleep ==
    /\ executor.pc = "sleep"
    /\ executor' = [executor EXCEPT !.pc = "ready"]
    /\ By("executor")
    /\ UNCHANGED <<robotVars, call, halt, sim, canvas, render>>

\* the last timer callback of the animation that started first: step(steps)
\* moves the robot item to its end and _draw_trail_segment draws the line
RenderFinal ==
    /\ render.pc = "idle"
    /\ render.anims # <<>>
    /\ sim' = [sim EXCEPT !.robot_item = Head(render.anims).new]
    /\ canvas' = Append(canvas, Head(render.anims))
    /\ render' = [render EXCEPT !.pc = "clear", !.anims = Tail(@)]
    /\ By("render")
    /\ UNCHANGED <<robotVars, call, halt, executor>>

\* self.animating = False
RenderClear ==
    /\ render.pc = "clear"
    /\ sim' = [sim EXCEPT !.animating = FALSE]
    /\ render' = [render EXCEPT !.pc = "check"]
    /\ By("render")
    /\ UNCHANGED <<robotVars, call, halt, canvas, executor>>

\* if self._move_queue: ... = self._move_queue.pop(0)
RenderCheck ==
    /\ render.pc = "check"
    /\ IF sim._move_queue # <<>>
       THEN /\ sim' = [sim EXCEPT !._move_queue = Tail(@)]
            /\ render' = [render EXCEPT !.pc = "start", !.move = Head(sim._move_queue)]
       ELSE /\ render' = [render EXCEPT !.pc = "idle"]
            /\ UNCHANGED sim
    /\ By("render")
    /\ UNCHANGED <<robotVars, call, halt, canvas, executor>>

\* animate_move_with_trail called for the popped move: it returns at once
\* when self.animating is set
RenderStartCheck ==
    /\ render.pc = "start"
    /\ render' = [render EXCEPT !.pc = IF sim.animating THEN "idle" ELSE "set"]
    /\ By("render")
    /\ UNCHANGED <<robotVars, call, halt, sim, canvas, executor>>

\* self.animating = True and step(0) for the popped move
RenderStartSet ==
    /\ render.pc = "set"
    /\ sim' = [sim EXCEPT !.animating = TRUE, !.robot_item = render.move.old]
    /\ render' = [render EXCEPT !.pc = "idle", !.anims = Append(@, render.move)]
    /\ shown' = [shown EXCEPT !.ctx = "render", !.started = Append(@, render.move.n)]
    /\ UNCHANGED <<robotVars, call, halt, canvas, executor>>

\* the button "Reset & Retry" of enhanced_simulator.py: command=self._reset_robot
\* runs in the main loop
ResetButton ==
    /\ sim.kind = "enhanced"
    /\ render.pc = "idle"
    /\ shown.resets < MaxResets
    /\ ResetRobot
    /\ shown' = [shown EXCEPT !.ctx = "render", !.resets = @ + 1]
    /\ UNCHANGED <<executor, render>>

windowIdleVars == <<script, backendVars, dogVars, decoded, slotVars,
                    SIMULATOR_SETTINGS, creating>>

NextWindow ==
    \/ \E direction \in {RIGHT, LEFT} : ExecCapture(direction) /\ UNCHANGED windowIdleVars
    \/ ExecMove /\ UNCHANGED windowIdleVars
    \/ ExecNotify /\ UNCHANGED windowIdleVars
    \/ ExecEnqueue /\ UNCHANGED windowIdleVars
    \/ ExecStartCheck /\ UNCHANGED windowIdleVars
    \/ ExecStartSet /\ UNCHANGED windowIdleVars
    \/ ExecReset /\ UNCHANGED windowIdleVars
    \/ ExecSleep /\ UNCHANGED windowIdleVars
    \/ RenderFinal /\ UNCHANGED windowIdleVars
    \/ RenderClear /\ UNCHANGED windowIdleVars
    \/ RenderCheck /\ UNCHANGED windowIdleVars
    \/ RenderStartCheck /\ UNCHANGED windowIdleVars
    \/ RenderStartSet /\ UNCHANGED windowIdleVars
    \/ ResetButton /\ UNCHANGED windowIdleVars

SpecWindow == WindowInit /\ [][NextWindow]_vars

\* the main loop runs the timer callbacks that are due, and the executor
\* thread runs on to the end of the move it was given; the caller owes no
\* further move and the user no click
SpecWindowFair ==
    /\ SpecWindow
    /\ WF_vars((RenderFinal \/ RenderClear \/ RenderCheck \/ RenderStartCheck
                    \/ RenderStartSet) /\ UNCHANGED windowIdleVars)
    /\ WF_vars((ExecMove \/ ExecNotify \/ ExecEnqueue \/ ExecStartCheck
                    \/ ExecStartSet \/ ExecReset \/ ExecSleep)
                /\ UNCHANGED windowIdleVars)

\* ---------------------------------------------------------------------------
\* Claims about the simulator window
\* ---------------------------------------------------------------------------

\* the numbers of a sequence of moves grow from each to the next
InMoveOrder(numbers) ==
    \A i \in 1..Len(numbers) : \A j \in 1..Len(numbers) :
        i < j => numbers[i] < numbers[j]

\* the numbers of the moves whose trail segment the canvas holds, in the
\* order the segments were drawn
Drawn == [i \in 1..Len(canvas) |-> canvas[i].n]

\* C27: whatever the interleaving of the executor with the timer callbacks of
\* the main loop, the animations of the successful moves reported through
\* robot_moved start in the order of the moves, and their trail segments are
\* drawn in that order.
C27_AnimationsInMoveOrder ==
    /\ InMoveOrder(shown.started)
    /\ InMoveOrder(Drawn)

\* C28: once a move of the caller's sequence has failed, no later move of the
\* sequence changes the position of the Robot, and no later move is animated.
C28_FailureIsTerminal ==
    [][executor.failed # 0 =>
            /\ (executor.pc = "move" /\ executor'.pc = "notify") => position' = position
            /\ \A i \in 1..Len(shown'.started) : shown'.started[i] < executor.failed
      ]_vars

\* one sequence is the other with more appended
IsPrefix(a, b) == Len(a) <= Len(b) /\ SubSeq(b, 1, Len(a)) = a

\* the positions movement_trail holds
Cells(trail) == [i \in 1..Len(trail) |-> Position(trail[i].x, trail[i].y)]

\* C29: once the window is set up movement_trail and the trail segments on
\* the canvas only grow; the reset after a collision removes no entry and no
\* segment, and appends the start position it leaves the Robot in.
C29_TrailOnlyGrows ==
    [][/\ Len(sim.movement_trail) <= Len(sim'.movement_trail)
       /\ IsPrefix(canvas, canvas')
       /\ (executor.pc = "reset" /\ executor'.pc # "reset") =>
                Cells(sim'.movement_trail) =
                    Append(Cells(sim.movement_trail), start_position)
      ]_vars

\* C30: no step of the render context changes the Robot, and a successful
\* move leaves the Robot one cell from the position the wrapper copied before
\* the move, in the direction of the move.
C30_OnlyExecutorMutatesRobot ==
    [][/\ shown'.ctx = "render" => UNCHANGED <<robotVars>>
       /\ (executor.pc = "move" /\ executor'.pc = "notify" /\ executor'.success) =>
                position' = NewPosition(executor.old_pos,
                                        Direction(lower(executor.direction)))
      ]_vars

\* C33: with the timer callbacks of the main loop running when due
\* (SpecWindowFair), every successful move reported through robot_moved is
\* eventually animated and gets its trail segment drawn, whatever the
\* interleaving of the executor with the callback that ends an animation,
\* and no triple stays in _move_queue for ever.
C33_EveryReportedMoveDrawn ==
    /\ \A n \in 1..MaxMoves :
            (executor.n = n /\ executor.pc = "notify" /\ executor.success)
                ~> (\E i \in 1..Len(canvas) : canvas[i].n = n)
    /\ (sim._move_queue # <<>>) ~> (sim._move_queue = <<>>)

\* C34: at most one animation is in progress: no chain of animation steps is
\* started while another is running or has not yet cleared animating after
\* drawing its trail segment.
C34_OneAnimationAtATime ==
    Len(render.anims) + (IF render.pc = "clear" THEN 1 ELSE 0) <= 1

\* C38: when no animation is in progress, _move_queue is empty and the
\* executor is not in the middle of a move, the robot item is displayed at
\* the cell the Robot is at, after any mix of successful moves and resets
\* that follow a collision (no reset button was clicked).
C38_IconAtRobotWhenIdle ==
    (/\ shown.resets = 0
     /\ ~sim.animating
     /\ sim._move_queue = <<>>
     /\ render.anims = <<>>
     /\ render.pc = "idle"
     /\ executor.pc \in {"ready", "raised"})
        => sim.robot_item = position

Rectangular(layout) ==
    /\ layout # <<>>
    /\ layout[1] # <<>>
    /\ \A r \in 1..Len(layout) : Len(layout[r]) = Len(layout[1])

\* C31: load_maze on a rectangular layout of H rows sets height = H and
\* width = len(row 0) and makes walls exactly {(c, H-1-r) : layout[r][c] = '#'}
\* (row 0 is the highest y); when the layout holds an 'S', start and current
\* position both become the cell of the first 'S' in row-major order.
C31_LoadMazeFlipsRows ==
    [][(call'.op = "load_maze" /\ Rectangular(call'.layout)) =>
        LET layout == call'.layout
            H == Len(layout)
            W == Len(layout[1])
            starts == {rc \in (0..(H - 1)) \X (0..(W - 1)) :
                            layout[rc[1] + 1][rc[2] + 1] = "S"}
        IN  /\ grid_height' = H
            /\ grid_width' = W
            /\ walls' = {<<rc[2], H - 1 - rc[1]>> :
                            rc \in {a \in (0..(H - 1)) \X (0..(W - 1)) :
                                        layout[a[1] + 1][a[2] + 1] = "#"}}
            /\ \A rc \in starts :
                    (\A other \in starts :
                        rc[1] * W + rc[2] <= other[1] * W + other[2])
                    => /\ start_position' = Position(rc[2], H - 1 - rc[1])
                       /\ position' = Position(rc[2], H - 1 - rc[1])
      ]_vars

\* a layout of two rows whose first 'S' in row-major order is not the first
\* in column-major order has been loaded
C31_Witness ==
    /\ call.op = "load_maze"
    /\ call.layout = << <<".", "S">>, <<"S", "#">> >>
    /\ walls = {<<1, 0>>}
    /\ position = Position(1, 1)
    /\ start_position = Position(1, 1)

\* C32: load_maze of a layout that has a cell in row 0 raises exactly when
\* the layout has no 'S' and the start cell the Robot had is a wall cell of
\* the new layout; in every other case it succeeds and leaves the simulation
\* not stopped and the move log empty.
C32_LoadMazeFailsOnlyOnWalledStart ==
    [][(call'.op = "load_maze" /\ call'.layout # <<>> /\ call'.layout[1] # <<>>) =>
        LET layout == call'.layout
            H == Len(layout)
            has(symbol, x, y) ==
                /\ H - y \in 1..H
                /\ x + 1 \in 1..Len(layout[H - y])
                /\ layout[H - y][x + 1] = symbol
            hasStart == \E r \in 1..H : \E c \in 1..Len(layout[r]) :
                            layout[r][c] = "S"
            fails == ~hasStart /\ has("#", start_position.x, start_position.y)
        IN  /\ (call'.ret = "ValueError") <=> fails
            /\ ~fails => /\ call'.outcome = "loaded"
                          /\ _simulation_stopped' = FALSE
                          /\ move_log' = <<>>
      ]_vars

\* load_maze has raised for a Robot that had left its start cell: the start
\* cell is a wall of the layout, the current cell is not
C32_Witness ==
    /\ call.op = "load_maze"
    /\ call.ret = "ValueError"
    /\ <<start_position.x, start_position.y>> \in walls
    /\ <<position.x, position.y>> \notin walls
    /\ position # start_position

\* C35: every record of the move log carries as position_before the position
\* the Robot had immediately before that move call, and the i-th record since
\* the last reset carries move_number i; the log is append-only, its earlier
\* records never change, and only reset_simulation empties it.
C35_LogRecordsPositionBefore ==
    [][/\ (call'.op = "move" /\ Len(move_log') = Len(move_log) + 1) =>
            /\ move_log'[Len(move_log')].position_before = FormatPosition(position)
            /\ move_log'[Len(move_log')].move_number = Len(move_log')
       /\ \/ IsPrefix(move_log, move_log')
          \/ move_log' = <<>> /\ call'.op = "reset_simulation"
      ]_vars


\* ---------------------------------------------------------------------------
\* create_robot_program of unified_robot.py, called by two threads. A call
\* with an override patches the module-level SIMULATOR_SETTINGS while the
\* RobotProgram is built and restores it afterwards. A step is one access to
\* the shared dictionary: a copy, an update, or the reads of
\* _setup_simulator. None is written -1.
\* ---------------------------------------------------------------------------

MaxCalls == 1

\* the module is imported and no thread has called yet
FactoryInit ==
    /\ NoRobot
    /\ NoBackend
    /\ NoDog
    /\ NoTelemetry
    /\ NoWindow
    /\ SIMULATOR_SETTINGS = SimulatorDefaults
    /\ creating = [t \in {"A", "B"} |->
                        [pc |-> "idle", calls |-> 0,
                         args |-> [grid_width |-> -1, grid_height |-> -1,
                                   start_x |-> -1, start_y |-> -1],
                         patched |-> FALSE,
                         temp_settings |-> SimulatorDefaults,
                         original_settings |-> SimulatorDefaults,
                         program |-> SimulatorDefaults]]

\* create_robot_program(grid_width, grid_height, start_x, start_y,
\* mode="simulator") up to line 261: with an override, temp_settings is a copy
\* of SIMULATOR_SETTINGS with the overrides written over it
CreateRobotProgram(t, args) ==
    /\ creating[t].pc \in {"idle", "returned"}
    /\ creating[t].calls < MaxCalls
    /\ creating' = [creating EXCEPT ![t] =
            [@ EXCEPT
                !.args = args,
                !.calls = @ + 1,
                !.patched = \E k \in DOMAIN args : args[k] # -1,
                !.pc = IF \E k \in DOMAIN args : args[k] # -1
                       THEN "original" ELSE "build",
                !.temp_settings =
                    [k \in DOMAIN SIMULATOR_SETTINGS |->
                        IF k \in DOMAIN args /\ args[k] # -1
                        THEN args[k] ELSE SIMULATOR_SETTINGS[k]]]]
    /\ UNCHANGED SIMULATOR_SETTINGS

\* original_settings = SIMULATOR_SETTINGS.copy()
CreateOriginal(t) ==
    /\ creating[t].pc = "original"
    /\ creating' = [creating EXCEPT ![t].original_settings = SIMULATOR_SETTINGS,
                                     ![t].pc = "update"]
    /\ UNCHANGED SIMULATOR_SETTINGS

\* SIMULATOR_SETTINGS.update(temp_settings)
CreateUpdate(t) ==
    /\ creating[t].pc = "update"
    /\ SIMULATOR_SETTINGS' = creating[t].temp_settings
    /\ creating' = [creating EXCEPT ![t].pc = "build"]

\* program = RobotProgram(current_mode): _setup_simulator reads the grid size
\* and the start from SIMULATOR_SETTINGS and builds the simulator with them
CreateBuild(t) ==
    /\ creating[t].pc = "build"
    /\ creating' = [creating EXCEPT
                        ![t].program = SIMULATOR_SETTINGS,
                        ![t].pc = IF creating[t].patched THEN "restore" ELSE "returned"]
    /\ UNCHANGED SIMULATOR_SETTINGS

\* finally: SIMULATOR_SETTINGS.update(original_settings), and the program is
\* returned
CreateRestore(t) ==
    /\ creating[t].pc = "restore"
    /\ SIMULATOR_SETTINGS' = creating[t].original_settings
    /\ creating' = [creating EXCEPT ![t].pc = "returned"]

factoryIdleVars == <<robotVars, call, halt, script, backendVars, dogVars, decoded,
                     slotVars, windowVars>>

NextFactory ==
    \/ \E t \in {"A", "B"} :
       \E width \in {-1, 5} : \E height \in {-1, 4} :
       \E start_x \in {-1, 2} : \E start_y \in {-1, 1} :
            /\ CreateRobotProgram(t, [grid_width |-> width, grid_height |-> height,
                                      start_x |-> start_x, start_y |-> start_y])
            /\ UNCHANGED factoryIdleVars
    \/ \E t \in {"A", "B"} : CreateOriginal(t) /\ UNCHANGED factoryIdleVars
    \/ \E t \in {"A", "B"} : CreateUpdate(t) /\ UNCHANGED factoryIdleVars
    \/ \E t \in {"A", "B"} : CreateBuild(t) /\ UNCHANGED factoryIdleVars
    \/ \E t \in {"A", "B"} : CreateRestore(t) /\ UNCHANGED factoryIdleVars

SpecFactory == FactoryInit /\ [][NextFactory]_vars

\* ---------------------------------------------------------------------------
\* Claims about the mock dog and about the simulator settings
\* ---------------------------------------------------------------------------

\* C37: with a mock dog, every Go1Controller.move with a valid direction
\* returns True and appends exactly one entry to the mock log, after the
\* entries of the earlier calls, for the command the direction is mapped to
\* (up: forward, down: backward, left: left, right: right); the first entry
\* of the log is the change to the initial mode, and nothing else writes to
\* the log.
C37_MockLogOneEntryPerMove ==
    [][(backend.kind = "Go1Controller" /\ backend.dog = "FakeDog") =>
        /\ dog_log[1] = ModeCall("Walk")
        /\ IF bcall'.op = "move" /\ lower(bcall'.direction) \in {UP, DOWN, LEFT, RIGHT}
           THEN /\ bcall'.ret = "True"
                /\ Len(dog_log') = Len(dog_log) + 1
                /\ SubSeq(dog_log', 1, Len(dog_log)) = dog_log
                /\ dog_log'[Len(dog_log')].method =
                        CASE lower(bcall'.direction) = UP -> "go_forward"
                          [] lower(bcall'.direction) = DOWN -> "go_backward"
                          [] lower(bcall'.direction) = LEFT -> "go_left"
                          [] lower(bcall'.direction) = RIGHT -> "go_right"
           ELSE dog_log' = dog_log
      ]_vars

\* the moves of test_mock_real_moves have been made on a mock dog: up, then
\* left
C37_Witness ==
    /\ backend = [kind |-> "Go1Controller", dog |-> "FakeDog"]
    /\ bcall.op = "move"
    /\ bcall.ret = "True"
    /\ Len(dog_log) = 3
    /\ dog_log[1] = ModeCall("Walk")
    /\ dog_log[2].method = "go_forward"
    /\ dog_log[3].method = "go_left"


\* C39: when every create_robot_program call made so far has returned,
\* whether the calls ran one after another or interleaved on two threads,
\* SIMULATOR_SETTINGS holds the values it had before the first call, and the
\* program each thread got was built with the grid size and the start of its
\* own call: the overrides of that call over the defaults.
C39_SettingsRestoredProgramsOwn ==
    (\A t \in DOMAIN creating : creating[t].pc \in {"idle", "returned"}) =>
        /\ SIMULATOR_SETTINGS = SimulatorDefaults
        /\ \A t \in DOMAIN creating :
                creating[t].pc = "returned" =>
                    \A k \in DOMAIN creating[t].args :
                        creating[t].program[k] =
                            IF creating[t].args[k] # -1 THEN creating[t].args[k]
                            ELSE SimulatorDefaults[k]

=============================================================================
